---------------------------- MODULE Spec2Model ----------------------------
(***************************************************************************)
(* Weighted finite-state automata over a semiring (rayuela.fsa): the       *)
(* Pathsum engine and the constructions of FSA, as state machines that     *)
(* draw a bounded automaton and apply the library's operations to it.      *)
(***************************************************************************)
EXTENDS Integers, Sequences, FiniteSets, TLC

VARIABLES
    fsa,      \* the automaton under construction (an FSA object)
    fsa2,     \* the second operand of the binary constructions
    order,    \* the order in which the set of states is iterated
    cfg,      \* the grammar under construction (a CFG object)
    counter,  \* the fresh-nonterminal counter of the Transformer
    out       \* the last operation called and what it returned

vars == <<fsa, fsa2, order, cfg, counter, out>>

(***************************************************************************)
(* Bounds of the model.                                                    *)
(***************************************************************************)
MaxArcs == 2

\* the state identities and the weights the construction calls draw from
States == {0, 1, 2}
ArcWeights(R) ==
    CASE R = "Tropical" -> {-1, 1}
      [] R = "Real" -> {2}
      [] R = "Boolean" -> {1}
      [] R = "Rational" -> {<<1, 2>>, <<1, 4>>}

(***************************************************************************)
(* Semirings (rayuela.base.semiring).  Weights are integers; Inf is the    *)
(* Tropical zero and Bot an undefined value (star of a non-closed element, *)
(* inverse of an element that has none), which every operation propagates. *)
(* "Rational" is the Real semiring on exact fractions: a weight n/d is the *)
(* pair <<n, d>> in lowest terms with d > 0, and <<0, 0>> its undefined    *)
(* value; there the star 1/(1 - a) of an element 0 < |a| < 1 has a value.  *)
(***************************************************************************)
Inf == 1000
Bot == -1000

Semirings == {"Tropical", "Real", "Boolean"}

Min(a, b) == IF a <= b THEN a ELSE b
Max(a, b) == IF a >= b THEN a ELSE b
Abs(n) == IF n < 0 THEN 0 - n ELSE n

RECURSIVE GCD(_, _)
GCD(a, b) == IF b = 0 THEN a ELSE GCD(b, a % b)

\* the fraction n/d, d > 0, in lowest terms
Frac(n, d) ==
    IF n = 0 THEN <<0, 1>>
    ELSE LET g == GCD(Abs(n), d) IN <<n \div g, d \div g>>

FracBot == <<0, 0>>
FracPlus(a, b) == Frac(a[1] * b[2] + b[1] * a[2], a[2] * b[2])
FracMinus(a, b) == Frac(a[1] * b[2] - b[1] * a[2], a[2] * b[2])
FracTimes(a, b) == Frac(a[1] * b[1], a[2] * b[2])
FracLess(a, b) == a[1] * b[2] < b[1] * a[2]

Zero(R) ==
    CASE R = "Tropical" -> Inf
      [] R = "Rational" -> <<0, 1>>
      [] OTHER -> 0
One(R) ==
    CASE R = "Tropical" -> 0
      [] R = "Rational" -> <<1, 1>>
      [] OTHER -> 1

\* the undefined value of the semiring
Undefined(R) == IF R = "Rational" THEN FracBot ELSE Bot

idempotent(R) == R \in {"Tropical", "Boolean"}
superior(R) == R \in {"Tropical", "Boolean"}

Plus(R, a, b) ==
    IF a = Undefined(R) \/ b = Undefined(R) THEN Undefined(R)
    ELSE CASE R = "Tropical" -> Min(a, b)
           [] R = "Real" -> a + b
           [] R = "Boolean" -> Max(a, b)
           [] R = "Rational" -> FracPlus(a, b)

Times(R, a, b) ==
    IF a = Undefined(R) \/ b = Undefined(R) THEN Undefined(R)
    ELSE CASE R = "Tropical" -> IF a = Inf \/ b = Inf THEN Inf ELSE a + b
           [] R = "Real" -> a * b
           [] R = "Boolean" -> Min(a, b)
           [] R = "Rational" -> FracTimes(a, b)

Star(R, a) ==
    IF a = Undefined(R) THEN Undefined(R)
    ELSE CASE R = "Tropical" -> IF a >= 0 THEN 0 ELSE Bot
           [] R = "Real" -> IF a = 0 THEN 1 ELSE Bot
           [] R = "Boolean" -> 1
           [] R = "Rational" ->
                  IF Abs(a[1]) < a[2] THEN Frac(a[2], a[2] - a[1]) ELSE FracBot

Inv(R, a) ==
    IF a = Undefined(R) THEN Undefined(R)
    ELSE CASE R = "Tropical" -> IF a = Inf THEN Bot ELSE 0 - a
           [] R = "Real" -> IF a = 1 THEN 1 ELSE Bot
           [] R = "Boolean" -> IF a = 1 THEN 1 ELSE Bot
           [] R = "Rational" ->
                  IF a[1] = 0 THEN FracBot
                  ELSE IF a[1] > 0 THEN <<a[2], a[1]>> ELSE <<0 - a[2], 0 - a[1]>>

(***************************************************************************)
(* Generic folds over sets and sequences.                                  *)
(***************************************************************************)
RECURSIVE SumSet(_, _, _)
SumSet(R, S, f) ==
    IF S = {} THEN Zero(R)
    ELSE LET x == CHOOSE y \in S : TRUE
         IN Plus(R, f[x], SumSet(R, S \ {x}, f))

RECURSIVE SeqOfSet(_)
SeqOfSet(S) ==
    IF S = {} THEN <<>>
    ELSE LET x == CHOOSE y \in S : \A z \in S : y <= z
         IN <<x>> \o SeqOfSet(S \ {x})

Range(s) == {s[i] : i \in 1..Len(s)}


FilterSeq(s, S) == SelectSeq(s, LAMBDA x : x \in S)

(***************************************************************************)
(* The FSA object (fsa.py:18-104): semiring R, alphabet Sigma, states Q,   *)
(* transition weights delta (zero where no arc was added), initial weights *)
(* lam and final weights rho.  delta is a dict of the states that have a   *)
(* row (rows), made by the first write or read of delta[i]; lam and rho    *)
(* are charts that make an entry zero on its first read.  freeze() turns   *)
(* the three into frozendicts: after it a read of a key that is not there  *)
(* raises KeyError and nothing can be added (frozen).                      *)
(***************************************************************************)
Eps == "eps"
Eps1 == "eps1"
Eps2 == "eps2"

Keys(F) == F.Q \X F.Sigma \X F.Q

\* delta_keys, lam_keys and rho_keys hold the keys of the three dicts in the
\* order of their insertion, the order in which Python iterates over them
FSA(R) ==
    [R |-> R, Sigma |-> {}, Q |-> {}, delta |-> <<>>, lam |-> <<>>, rho |-> <<>>,
     delta_keys |-> <<>>, lam_keys |-> <<>>, rho_keys |-> <<>>,
     rows |-> {}, frozen |-> FALSE]

\* a key enters a dict at the end, and keeps its place when written again
Inserted(ks, k) == IF \E n \in 1..Len(ks) : ks[n] = k THEN ks ELSE Append(ks, k)

\* chart lookup with the semiring zero as default (R.chart(), δ's defaultdict)
Get(R, f, k) == IF k \in DOMAIN f THEN f[k] ELSE Zero(R)

Put(f, k, v) == (k :> v) @@ f

\* a chart with its entries computed: the same function, held as a table
Table(f) == f @@ <<>>

\* a result: a value, or the exception the call ends with
Ok(v) == [err |-> "", val |-> v]
Raise(e) == [err |-> e, val |-> Bot]

\* a call that returns an automaton or raises: has it raised, and its outcome
Raised(x) == "err" \in DOMAIN x
Returned(x) == IF Raised(x) THEN x ELSE Ok(x)

\* the CFG object (rayuela.cfg.cfg): semiring R, start symbol S, nonterminals
\* V, terminals Sigma, the productions P in the order of their insertion,
\* each with its weight, and the unary FSA once make_unary_fsa has built it
None == [none |-> TRUE]

CFG(R) ==
    [R |-> R, S |-> "S", V |-> {"S"}, Sigma |-> {}, P |-> <<>>, unary_fsa |-> None]

add_state(F, q) == [F EXCEPT !.Q = @ \cup {q}]

add_arc(F, i, a, j, w) ==
    [F EXCEPT !.Q = @ \cup {i, j},
              !.Sigma = @ \cup {a},
              !.delta = Put(@, <<i, a, j>>, Plus(F.R, Get(F.R, @, <<i, a, j>>), w)),
              !.delta_keys = Inserted(@, <<i, a, j>>),
              !.rows = @ \cup {i}]

set_arc(F, i, a, j, w) ==
    [F EXCEPT !.Q = @ \cup {i, j},
              !.Sigma = @ \cup {a},
              !.delta = Put(@, <<i, a, j>>, w),
              !.delta_keys = Inserted(@, <<i, a, j>>),
              !.rows = @ \cup {i}]

set_I(F, q, w) ==
    [F EXCEPT !.Q = @ \cup {q}, !.lam = Put(@, q, w), !.lam_keys = Inserted(@, q)]
set_F(F, q, w) ==
    [F EXCEPT !.Q = @ \cup {q}, !.rho = Put(@, q, w), !.rho_keys = Inserted(@, q)]
add_I(F, q, w) ==
    [F EXCEPT !.Q = @ \cup {q}, !.lam = Put(@, q, Plus(F.R, Get(F.R, @, q), w)),
              !.lam_keys = Inserted(@, q)]
add_F(F, q, w) ==
    [F EXCEPT !.Q = @ \cup {q}, !.rho = Put(@, q, Plus(F.R, Get(F.R, @, q), w)),
              !.rho_keys = Inserted(@, q)]

Lam(F, q) == Get(F.R, F.lam, q)
Rho(F, q) == Get(F.R, F.rho, q)
Delta(F, i, a, j) == Get(F.R, F.delta, <<i, a, j>>)

\* the states with a non-zero initial (final) weight
I(F) == {q \in DOMAIN F.lam : F.lam[q] # Zero(F.R)}
Fin(F) == {q \in DOMAIN F.rho : F.rho[q] # Zero(F.R)}

\* "for q, w in self.I" ("self.F"): these states in the order in which the
\* dict lam (rho) yields them
I_items(F) == SelectSeq(F.lam_keys, LAMBDA q : F.lam[q] # Zero(F.R))
F_items(F) == SelectSeq(F.rho_keys, LAMBDA q : F.rho[q] # Zero(F.R))

num_states(F) == Cardinality(F.Q)

\* freeze (fsa.py:99-104, fst.py:65-71): Q and Sigma become frozensets, the
\* dicts frozendicts of the keys they have
freeze(F) == [F EXCEPT !.frozen = TRUE]

\* the automaton with dicts that make what is read: the same weights, and
\* the run a call makes when none of its reads fails
thawed(F) == [F EXCEPT !.frozen = FALSE]

\* delta[i] can be read for every i of S: the row is there, or delta makes it
has_rows(F, S) == F.frozen => S \subseteq F.rows
\* lam[q] (rho[q]) can be read for every q of S
has_lam(F, S) == F.frozen => S \subseteq DOMAIN F.lam
has_rho(F, S) == F.frozen => S \subseteq DOMAIN F.rho

\* the dicts after the reads of delta[i], i in S, and of lam[q] and rho[q],
\* q in the sequences ls and rs: what was missing has been made, empty or zero
RECURSIVE read_chart(_, _, _, _)
read_chart(R, c, qs, n) ==
    IF n > Len(qs) THEN c
    ELSE read_chart(R, IF qs[n] \in DOMAIN c THEN c ELSE Put(c, qs[n], Zero(R)), qs, n + 1)

RECURSIVE read_keys(_, _, _)
read_keys(ks, qs, n) ==
    IF n > Len(qs) THEN ks ELSE read_keys(Inserted(ks, qs[n]), qs, n + 1)

read(F, S, ls, rs) ==
    IF F.frozen THEN F
    ELSE [F EXCEPT !.rows = @ \cup S,
                   !.lam = read_chart(F.R, @, ls, 1),
                   !.lam_keys = read_keys(@, ls, 1),
                   !.rho = read_chart(F.R, @, rs, 1),
                   !.rho_keys = read_keys(@, rs, 1)]

RECURSIVE Flatten(_)
Flatten(ss) == IF ss = <<>> THEN <<>> ELSE Head(ss) \o Flatten(Tail(ss))

\* sequence of the elements of a set, in a fixed order
RECURSIVE SeqOfKeys(_)
SeqOfKeys(S) ==
    IF S = {} THEN <<>>
    ELSE LET x == CHOOSE y \in S : TRUE IN <<x>> \o SeqOfKeys(S \ {x})

\* a sequence without the repetitions of its elements
RECURSIVE Distinct(_)
Distinct(s) ==
    IF s = <<>> THEN <<>>
    ELSE LET r == Distinct(SubSeq(s, 1, Len(s) - 1))
         IN Inserted(r, s[Len(s)])

(***************************************************************************)
(* arcs (fsa.py:118-125): the non-zero arcs leaving i as <<a, j, w>>.  The *)
(* symbols come in the order in which delta[i] received them and, under a  *)
(* symbol, the targets in the order in which delta[i][a] received them;    *)
(* no_eps skips the arcs labelled with the empty symbol.                   *)
(***************************************************************************)
arcs(F, i, no_eps) ==
    IF ~ has_rows(F, {i}) THEN Raise("KeyError")
    ELSE
    LET from_i == SelectSeq(F.delta_keys, LAMBDA k : k[1] = i)
        symbols == Distinct([n \in 1..Len(from_i) |-> from_i[n][2]])
        syms == SelectSeq(symbols, LAMBDA a : ~ (no_eps /\ a = Eps))
        T(a) == SelectSeq(from_i, LAMBDA k : k[2] = a /\ F.delta[k] # Zero(F.R))
    IN Flatten([n \in 1..Len(syms) |->
           [m \in 1..Len(T(syms[n])) |->
               <<syms[n], T(syms[n])[m][3], F.delta[T(syms[n])[m]]>>]])

\* "for p in ps: for a, q, w in fsa.arcs(p)" as a sequence of <<p, a, q, w>>
arcs_from(F, ps, no_eps) ==
    Flatten([n \in 1..Len(ps) |->
        LET A == arcs(F, ps[n], no_eps)
        IN [m \in 1..Len(A) |-> <<ps[n], A[m][1], A[m][2], A[m][3]>>]])

\* every non-zero arc of the automaton, in the iteration order of Q
all_arcs(F, ord) == arcs_from(F, ord, FALSE)

(***************************************************************************)
(* Depth-first search (fsa.py:223-277).                                    *)
(***************************************************************************)
RECURSIVE dfs_visit(_, _, _)
RECURSIVE dfs_arcs(_, _, _, _)

dfs_arcs(F, st, A, n) ==
    IF n > Len(A) THEN st
    ELSE LET q == A[n][2]
             st1 == IF q \in st.in_progress THEN [st EXCEPT !.cyclic = TRUE]
                    ELSE IF q \notin DOMAIN st.finished THEN dfs_visit(F, st, q)
                    ELSE st
         IN dfs_arcs(F, st1, A, n + 1)

dfs_visit(F, st, p) ==
    LET st1 == [st EXCEPT !.in_progress = @ \cup {p}]
        st2 == dfs_arcs(F, st1, arcs(F, p, FALSE), 1)
    IN [st2 EXCEPT !.in_progress = @ \ {p},
                   !.finished = Put(@, p, st2.counter),
                   !.counter = @ + 1]

\* "for q, _ in self.I: _dfs(q)": every initial state is visited, finished
\* by an earlier visit or not
RECURSIVE dfs_roots(_, _, _, _)
dfs_roots(F, st, roots, n) ==
    IF n > Len(roots) THEN st
    ELSE dfs_roots(F, dfs_visit(F, st, roots[n]), roots, n + 1)

dfs_from_I(F) ==
    dfs_roots(F,
              [in_progress |-> {}, finished |-> <<>>, cyclic |-> FALSE, counter |-> 0],
              I_items(F), 1)

\* the states the search visits, each of which has its arcs read
dfs_visited(F) == DOMAIN dfs_from_I(thawed(F)).finished

dfs(F) == IF ~ has_rows(F, dfs_visited(F)) THEN Raise("KeyError") ELSE dfs_from_I(F)

\* no cycle of stored arcs is reached from an initial state
no_cycle(F) == ~ dfs_from_I(thawed(F)).cyclic

acyclic(F) == IF ~ has_rows(F, dfs_visited(F)) THEN Raise("KeyError") ELSE ~ dfs(F).cyclic

\* the states in the order of their finishing number (descending unless rev)
finish_order(fin, rev) ==
    LET nums == SeqOfSet({fin[s] : s \in DOMAIN fin})
        K == Len(nums)
        st(n) == CHOOSE s \in DOMAIN fin : fin[s] = n
    IN [k \in 1..K |-> IF rev THEN st(nums[k]) ELSE st(nums[K + 1 - k])]

\* with acyclic_check the call fails on an automaton that has a cycle
finish(F, rev, acyclic_check) ==
    IF ~ has_rows(F, dfs_visited(F)) THEN Raise("KeyError")
    ELSE IF acyclic_check /\ ~ acyclic(F) THEN Raise("AssertionError")
    ELSE Ok(finish_order(dfs(F).finished, rev))

toposort(F, rev) == finish(F, rev, TRUE)

(***************************************************************************)
(* Pathsum (pathsum.py): weight matrix, all-pairs sums, Viterbi.           *)
(***************************************************************************)
VITERBI == 1
BELLMANFORD == 2
DIJKSTRA == 3
LEHMANN == 4
JOHNSON == 5
FIXPOINT == 6
DECOMPOSED_LEHMANN == 7

\* Pathsum(fsa) (pathsum.py:24-37): the constructor calls lift(), which
\* reads the arcs of every state
Pathsum(F) == IF ~ has_rows(F, F.Q) THEN Raise("KeyError") ELSE Ok(F)

lift(F, ord) ==
    IF ~ has_rows(F, F.Q) THEN Raise("KeyError")
    ELSE
    Table([pq \in F.Q \X F.Q |->
        SumSet(F.R, F.Sigma, [a \in F.Sigma |-> Delta(F, pq[1], a, pq[2])])])

\* "pathsum += lam[p] * W[p, q] * rho[q]" reads lam and rho at every state
allpairs_pathsum(F, W) ==
    LET R == F.R
    IN IF ~ (has_lam(F, F.Q) /\ has_rho(F, F.Q)) THEN Raise("KeyError")
       ELSE
       SumSet(R, F.Q \X F.Q,
              [pq \in F.Q \X F.Q |->
                  Times(R, Times(R, Lam(F, pq[1]), Get(R, W, pq)), Rho(F, pq[2]))])

\* the keys a read of chart[k] for every k of S leaves in a defaultdict
touch(R, chart, S) == Table([k \in DOMAIN chart \cup S |-> Get(R, chart, k)])

\* "chart[p] += w * chart[q]": the reads of chart[p] and chart[q] make the
\* keys the chart does not hold, with zero
relax_bwd_arc(R, chart, p, q, w) ==
    Put(touch(R, chart, {p, q}), p, Plus(R, Get(R, chart, p), Times(R, w, Get(R, chart, q))))

\* one pass "for A[n] = <<p, a, q, w>>: chart[p] += w * chart[q]"; the
\* chart of a step is computed, its written key looked up, before the next
RECURSIVE relax_bwd(_, _, _, _)
relax_bwd(R, chart, A, n) ==
    IF n > Len(A) THEN chart
    ELSE LET c == relax_bwd_arc(R, chart, A[n][1], A[n][3], A[n][4])
         IN IF A[n][1] \in DOMAIN c THEN relax_bwd(R, c, A, n + 1) ELSE c

\* "chart[q] += chart[p] * w": the reads of chart[q] and chart[p] make the
\* keys the chart does not hold, with zero
relax_fwd_arc(R, chart, p, q, w) ==
    Put(touch(R, chart, {p, q}), q, Plus(R, Get(R, chart, q), Times(R, Get(R, chart, p), w)))

\* one pass "for A[n] = <<p, a, q, w>>: chart[q] += chart[p] * w"; the
\* chart of a step is computed, its written key looked up, before the next
RECURSIVE relax_fwd(_, _, _, _)
relax_fwd(R, chart, A, n) ==
    IF n > Len(A) THEN chart
    ELSE LET c == relax_fwd_arc(R, chart, A[n][1], A[n][3], A[n][4])
         IN IF A[n][3] \in DOMAIN c THEN relax_fwd(R, c, A, n + 1) ELSE c

\* the chart {q: w for q, w in fsa.I} (resp. fsa.F)
base_I(F) == [q \in I(F) |-> F.lam[q]]
base_F(F) == [q \in Fin(F) |-> F.rho[q]]

viterbi_fwd(F, ord) ==
    IF Pathsum(F).err # "" THEN Pathsum(F)
    ELSE IF ~ acyclic(F) THEN Raise("AssertionError")
    ELSE LET sorted == toposort(F, FALSE)
         IN IF sorted.err # "" THEN sorted
            ELSE Ok(relax_fwd(F.R, base_I(F), arcs_from(F, sorted.val, FALSE), 1))

viterbi_bwd(F, ord) ==
    IF Pathsum(F).err # "" THEN Pathsum(F)
    ELSE IF ~ acyclic(F) THEN Raise("AssertionError")
    ELSE LET sorted == toposort(F, TRUE)
         IN IF sorted.err # "" THEN sorted
            ELSE Ok(relax_bwd(F.R, base_F(F), arcs_from(F, sorted.val, FALSE), 1))

\* pathsum of a backward chart: sum over q of lam[q] * beta[q]
bwd_pathsum(F, beta) ==
    SumSet(F.R, F.Q, [q \in F.Q |-> Times(F.R, Lam(F, q), Get(F.R, beta, q))])

\* the pathsum of the backward chart b, unless computing b has raised or
\* lam has no entry for a state
pathsum_of_bwd(F, b) ==
    IF b.err # "" THEN b
    ELSE IF ~ has_lam(F, F.Q) THEN Raise("KeyError")
    ELSE Ok(bwd_pathsum(F, b.val))

viterbi_pathsum(F, ord) == pathsum_of_bwd(F, viterbi_bwd(F, ord))

(***************************************************************************)
(* Lehmann's algorithm (pathsum.py:260-305).                               *)
(***************************************************************************)
\* the round that leaves out the star of U[j, j]
lehmann_step_without_star(R, Q, U, j) ==
    Table([ik \in Q \X Q |->
        Plus(R, U[ik], Times(R, U[<<ik[1], j>>], U[<<j, ik[2]>>]))])

lehmann_step(R, Q, U, j) ==
    Table([ik \in Q \X Q |->
        Plus(R, U[ik],
             Times(R, Times(R, U[<<ik[1], j>>], Star(R, U[<<j, j>>])), U[<<j, ik[2]>>]))])

RECURSIVE lehmann_loop(_, _, _, _, _)
lehmann_loop(R, Q, U, ord, n) ==
    IF n > Len(ord) THEN U
    ELSE lehmann_loop(R, Q, lehmann_step(R, Q, U, ord[n]), ord, n + 1)

add_diagonal(R, Q, V) ==
    Table([ik \in Q \X Q |-> IF ik[1] = ik[2] THEN Plus(R, V[ik], One(R)) ELSE V[ik]])

lehmann(F, ord, zero) ==
    IF ~ has_rows(F, F.Q) THEN Raise("KeyError")
    ELSE
    LET V == lehmann_loop(F.R, F.Q, lift(F, ord), ord, 1)
    IN IF zero THEN add_diagonal(F.R, F.Q, V) ELSE V

lehmann_pathsum(F, ord) ==
    IF Pathsum(F).err # "" THEN Pathsum(F)
    ELSE IF ~ (has_lam(F, F.Q) /\ has_rho(F, F.Q)) THEN Raise("KeyError")
    ELSE Ok(allpairs_pathsum(F, lehmann(F, ord, TRUE)))


(***************************************************************************)
(* Bellman-Ford (pathsum.py:371-420).  The returned chart is a frozendict: *)
(* it holds the keys the run has touched and no default.                   *)
(***************************************************************************)
RECURSIVE rounds_fwd(_, _, _, _)
rounds_fwd(R, chart, A, k) ==
    IF k <= 0 THEN chart ELSE rounds_fwd(R, relax_fwd(R, chart, A, 1), A, k - 1)

RECURSIVE rounds_bwd(_, _, _, _)
rounds_bwd(R, chart, A, k) ==
    IF k <= 0 THEN chart ELSE rounds_bwd(R, relax_bwd(R, chart, A, 1), A, k - 1)

endpoints(A) == {A[n][1] : n \in 1..Len(A)} \cup {A[n][3] : n \in 1..Len(A)}

ones(R, S) == [q \in S |-> One(R)]

\* the final pass: an arc that can still be relaxed raises
bellmanford_fwd_check(R, A, alpha) ==
    IF \E n \in 1..Len(A) :
           Plus(R, Get(R, alpha, A[n][3]), Times(R, Get(R, alpha, A[n][1]), A[n][4]))
               # Get(R, alpha, A[n][3])
    THEN Raise("AttributeError")
    ELSE Ok(touch(R, alpha, endpoints(A)))

bellmanford_fwd_arcs(R, A, base, N) ==
    bellmanford_fwd_check(R, A, rounds_fwd(R, base, A, N - 1))

bellmanford_fwd_from(F, ord, base) ==
    IF Pathsum(F).err # "" THEN Pathsum(F)
    ELSE bellmanford_fwd_arcs(F.R, all_arcs(F, ord), base, num_states(F))

bellmanford_fwd(F, ord) == bellmanford_fwd_from(F, ord, base_I(F))

bellmanford_bwd_check(R, A, beta) ==
    IF \E n \in 1..Len(A) :
           Plus(R, Get(R, beta, A[n][1]), Times(R, A[n][4], Get(R, beta, A[n][3])))
               # Get(R, beta, A[n][1])
    THEN Raise("AttributeError")
    ELSE Ok(touch(R, beta, endpoints(A)))

bellmanford_bwd_arcs(R, A, base, N) ==
    bellmanford_bwd_check(R, A, rounds_bwd(R, base, A, N - 1))

bellmanford_bwd_from(F, ord, base) ==
    IF Pathsum(F).err # "" THEN Pathsum(F)
    ELSE bellmanford_bwd_arcs(F.R, all_arcs(F, ord), base, num_states(F))

bellmanford_bwd(F, ord) == bellmanford_bwd_from(F, ord, base_F(F))

\* "for q in self.fsa.Q: pathsum += lam[q] * beta[q]" on the frozendict beta:
\* a state of Q that the backward pass has not touched is a missing key
bellmanford_pathsum(F, ord) ==
    LET b == bellmanford_bwd(F, ord)
    IN IF b.err # "" THEN b
       ELSE IF \E q \in F.Q : q \notin DOMAIN b.val THEN Raise("KeyError")
       ELSE IF ~ has_lam(F, F.Q) THEN Raise("KeyError")
       ELSE Ok(bwd_pathsum(F, b.val))

(***************************************************************************)
(* Dijkstra (pathsum.py:225-258).  The agenda pops an entry whose priority *)
(* is best in the order of the semiring.  Which of several best entries    *)
(* it pops is left open by the description of the queue: ties is the       *)
(* ranking of the states that decides it, the entry of the state ranked    *)
(* first being popped, and every ranking is a queue the call may run on.   *)
(***************************************************************************)
Pos(ord, q) == CHOOSE n \in 1..Len(ord) : ord[n] = q

agenda_pop(R, ties, agenda) ==
    LET best == {e \in agenda : \A d \in agenda : Plus(R, e[2], d[2]) = e[2]}
    IN CHOOSE e \in best : \A d \in best : Pos(ties, e[1]) <= Pos(ties, d[1])

RECURSIVE dijkstra_loop(_, _, _, _, _)
dijkstra_loop(F, ties, agenda, popped, alpha) ==
    IF agenda = {} THEN alpha
    ELSE LET R == F.R
             e == agenda_pop(R, ties, agenda)
             i == e[1]
             v == e[2]
             A == arcs(F, i, FALSE)
             popped1 == popped \cup {i}
             pushed == {<<A[n][2], Times(R, v, A[n][3])>> :
                            n \in {m \in 1..Len(A) : A[m][2] \notin popped1}}
         IN dijkstra_loop(F, ties, (agenda \ {e}) \cup pushed, popped1,
                          Put(alpha, i, Plus(R, Get(R, alpha, i), v)))

dijkstra_fwd_from(F, ties, base) ==
    IF Pathsum(F).err # "" THEN Pathsum(F)
    ELSE IF ~ superior(F.R) THEN Raise("AssertionError")
    ELSE Ok(dijkstra_loop(F, ties, {<<q, base[q]>> : q \in DOMAIN base}, {}, <<>>))

dijkstra_fwd(F, ties) == dijkstra_fwd_from(F, ties, base_I(F))

dijkstra_early(F, ties) == Raise("NotImplementedError")


(***************************************************************************)
(* reverse (fsa.py:302-313) and push_with_potential (push.py:1-16).        *)
(***************************************************************************)
RECURSIVE add_arcs_rev(_, _, _)
add_arcs_rev(G, A, n) ==
    IF n > Len(A) THEN G
    ELSE add_arcs_rev(add_arc(G, A[n][3], A[n][2], A[n][1], A[n][4]), A, n + 1)

RECURSIVE add_F_all(_, _, _, _)
add_F_all(G, chart, qs, n) ==
    IF n > Len(qs) THEN G ELSE add_F_all(add_F(G, qs[n], chart[qs[n]]), chart, qs, n + 1)

RECURSIVE add_I_all(_, _, _, _)
add_I_all(G, chart, qs, n) ==
    IF n > Len(qs) THEN G ELSE add_I_all(add_I(G, qs[n], chart[qs[n]]), chart, qs, n + 1)

\* "for i in self.Q: for a, j, w in self.arcs(i)" reads the row of every
\* state: on a frozen automaton a state without a row is a missing key
reverse(F, ord) ==
    IF ~ has_rows(F, F.Q) THEN Raise("KeyError")
    ELSE
    LET G1 == add_arcs_rev(FSA(F.R), all_arcs(F, ord), 1)
        G2 == add_F_all(G1, F.lam, I_items(F), 1)
    IN add_I_all(G2, F.rho, F_items(F), 1)

spawn(F) == FSA(F.R)

RECURSIVE push_arcs(_, _, _, _, _)
push_arcs(F, V, G, A, n) ==
    IF n > Len(A) THEN G
    ELSE LET R == F.R
             w == Times(R, Times(R, Inv(R, V[A[n][1]]), A[n][4]), V[A[n][3]])
         IN push_arcs(F, V, add_arc(G, A[n][1], A[n][2], A[n][3], w), A, n + 1)

RECURSIVE push_states(_, _, _, _, _)
push_states(F, ord, V, G, n) ==
    IF n > Len(ord) THEN G
    ELSE LET R == F.R
             i == ord[n]
             G1 == set_I(G, i, Times(R, Lam(F, i), V[i]))
             G2 == set_F(G1, i, Times(R, Inv(R, V[i]), Rho(F, i)))
         IN push_states(F, ord, V, push_arcs(F, V, G2, arcs_from(F, <<i>>, FALSE), 1), n + 1)

\* sum of all arc weights leaving i, zero-weight entries included, plus rho[i]
pushed_at(F, i) ==
    Plus(F.R,
         SumSet(F.R, F.Sigma \X F.Q,
                [aj \in F.Sigma \X F.Q |-> Delta(F, i, aj[1], aj[2])]),
         Rho(F, i)) = One(F.R)

\* the states in the order ord the set Q is iterated in: the first state
\* whose sum is not one ends the loop, and a state reached before that
\* whose row or final weight a frozen automaton does not hold is a missing
\* key (fsa.py:290-300)
RECURSIVE pushed_from(_, _, _)
pushed_from(F, ord, n) ==
    IF n > Len(ord) THEN Ok(TRUE)
    ELSE IF ~ (has_rows(F, {ord[n]}) /\ has_rho(F, {ord[n]})) THEN Raise("KeyError")
    ELSE IF ~ pushed_at(F, ord[n]) THEN Ok(FALSE)
    ELSE pushed_from(F, ord, n + 1)

pushed(F, ord) == pushed_from(F, ord, 1)

\* the states whose row and final weight the loop reads on an automaton that
\* is not frozen: those up to the first state that ends it
pushed_reads(F, ord) ==
    {ord[n] : n \in {m \in 1..Len(ord) : \A k \in 1..(m - 1) : pushed_at(F, ord[k])}}

\* with sanity_check "assert pfsa.pushed" reads the row of every state of the
\* result, which makes the rows that no arc has made
push_with_potential(F, ord, V, sanity_check) ==
    IF ~ (has_lam(F, F.Q) /\ has_rho(F, F.Q) /\ has_rows(F, F.Q)) THEN Raise("KeyError")
    ELSE
    IF \E i \in F.Q : i \notin DOMAIN V
           \/ \E a \in F.Sigma, j \in F.Q :
                  Delta(F, i, a, j) # Zero(F.R) /\ j \notin DOMAIN V
    THEN Raise("KeyError")
    ELSE LET G == push_states(F, ord, V, spawn(F), 1)
         IN IF ~ sanity_check THEN Ok(G)
            ELSE IF ~ pushed(G, ord).val THEN Raise("AssertionError")
            ELSE Ok(read(G, pushed_reads(G, ord), <<>>, <<>>))

(***************************************************************************)
(* Johnson (pathsum.py:423-440).                                           *)
(***************************************************************************)
\* W[p, q] = ~alpha[p] * w * alpha[q] for q, w in d.items()
johnson_row(R, alpha, W, p, d) ==
    Table([k \in DOMAIN W \cup ({p} \X DOMAIN d) |->
        IF k[1] = p /\ k[2] \in DOMAIN d
        THEN Times(R, Times(R, Inv(R, alpha[p]), d[k[2]]), alpha[k[2]])
        ELSE W[k]])

\* "for p in self.fsa.Q: d = ps.dijkstra_fwd(I=[p])": the assertion of
\* dijkstra_fwd is reached once there is a state to start from
RECURSIVE johnson_rows(_, _, _, _, _, _, _)
johnson_rows(F, ord, ties, alpha, P, W, n) ==
    IF n > Len(ord) THEN Ok(W)
    ELSE LET d == dijkstra_fwd_from(P, ties, ones(F.R, {ord[n]}))
         IN IF d.err # "" THEN d
            ELSE johnson_rows(F, ord, ties, alpha, P,
                              johnson_row(F.R, alpha, W, ord[n], d.val), n + 1)

\* step 3 on the pushed automaton P, unless the pushing has raised
johnson_closure(F, ord, ties, alpha, P) ==
    IF P.err # "" THEN P ELSE johnson_rows(F, ord, ties, alpha, P.val, <<>>, 1)

johnson_pushed(F, ord, ties, alpha) ==
    johnson_closure(F, ord, ties, alpha,
        push_with_potential(F, ord, Table([q \in DOMAIN alpha |-> Inv(F.R, alpha[q])]), FALSE))

\* steps 2 and 3 with the potentials a, unless Bellman-Ford has raised
johnson_potential(F, ord, ties, a) ==
    IF a.err # "" THEN a ELSE johnson_pushed(F, ord, ties, a.val)

johnson(F, ord, ties) ==
    johnson_potential(F, ord, ties, bellmanford_fwd_from(F, ord, ones(F.R, I(F))))

\* allpairs_pathsum of the closure W, unless computing W has raised
pathsum_of_closure(F, W) ==
    IF W.err # "" THEN W
    ELSE IF ~ (has_lam(F, F.Q) /\ has_rho(F, F.Q)) THEN Raise("KeyError")
    ELSE Ok(allpairs_pathsum(F, W.val))

johnson_pathsum(F, ord, ties) == pathsum_of_closure(F, johnson(F, ord, ties))

\* the position in ord of the state at which push_with_potential (push.py:
\* 8-13) fails for a key missing from V, or 0
push_stop(F, ord, V) ==
    LET fails(i) == i \notin DOMAIN V
                        \/ \E a \in F.Sigma, j \in F.Q :
                               Delta(F, i, a, j) # Zero(F.R) /\ j \notin DOMAIN V
        bad == {n \in 1..Len(ord) : fails(ord[n])}
    IN IF bad = {} THEN 0 ELSE CHOOSE n \in bad : \A m \in bad : n <= m

\* the states at which push_with_potential reads lam[i] and rho[i] on an
\* automaton that is not frozen: "fsa.lam[i] * V[i]" reads lam[i] before V[i],
\* "~V[i] * fsa.rho[i]" reads rho[i] after it
push_reads(F, ord, V) ==
    LET n == push_stop(F, ord, V)
    IN IF n = 0 THEN [lam |-> ord, rho |-> ord]
       ELSE [lam |-> SubSeq(ord, 1, n),
             rho |-> SubSeq(ord, 1, IF ord[n] \in DOMAIN V THEN n ELSE n - 1)]

\* the initial and final weights johnson() reads on an automaton that is not
\* frozen: those of the pushing, once Bellman-Ford has returned
johnson_reads(F, ord) ==
    LET G == thawed(F)
        a == bellmanford_fwd_from(G, ord, ones(G.R, I(G)))
        V == Table([q \in DOMAIN a.val |-> Inv(G.R, a.val[q])])
    IN IF a.err # "" THEN [lam |-> <<>>, rho |-> <<>>] ELSE push_reads(G, ord, V)

\* the initial and final weights FSA.pathsum(JOHNSON) reads on an automaton
\* that is not frozen: those of Viterbi on an acyclic automaton, else those
\* of johnson() and, once the closure has returned, of allpairs_pathsum
FSA_johnson_reads(F, ord, ties) ==
    LET G == thawed(F)
    IN IF no_cycle(G) THEN [lam |-> ord, rho |-> <<>>]
       ELSE IF ~ idempotent(G.R) THEN [lam |-> <<>>, rho |-> <<>>]
       ELSE IF johnson(G, ord, ties).err # "" THEN johnson_reads(G, ord)
       ELSE [lam |-> ord, rho |-> ord]

\* the final weights FSA.forward reads over the strategy values on an
\* automaton that is not frozen (the initial weights are read at every state
\* by allpairs_fwd): none on an acyclic automaton, else those of johnson()
forward_reads_rho(F, ord) ==
    IF no_cycle(F) \/ ~ idempotent(F.R) THEN <<>> ELSE johnson_reads(F, ord).rho

\* the initial weights FSA.backward reads over the strategy values on an
\* automaton that is not frozen (the final weights are read at every state
\* by allpairs_bwd): none on an acyclic automaton, else those of johnson()
backward_reads_lam(F, ord) ==
    IF no_cycle(F) \/ ~ idempotent(F.R) THEN <<>> ELSE johnson_reads(F, ord).lam


(***************************************************************************)
(* Kosaraju's strongly connected components (scc.py:6-74).                 *)
(***************************************************************************)
RECURSIVE scc_dfs(_, _, _, _)
RECURSIVE scc_dfs_arcs(_, _, _, _, _)

scc_dfs_arcs(F, ord, st, A, n) ==
    IF n > Len(A) THEN st ELSE scc_dfs_arcs(F, ord, scc_dfs(F, ord, st, A[n][2]), A, n + 1)

\* st = [visited, stack]
scc_dfs(F, ord, st, u) ==
    IF u \in st.visited THEN st
    ELSE LET st1 == scc_dfs_arcs(F, ord, [st EXCEPT !.visited = @ \cup {u}],
                                 arcs(F, u, FALSE), 1)
         IN [st1 EXCEPT !.stack = Append(@, u)]

RECURSIVE scc_dfs_all(_, _, _, _)
scc_dfs_all(F, ord, st, n) ==
    IF n > Len(ord) THEN st ELSE scc_dfs_all(F, ord, scc_dfs(F, ord, st, ord[n]), n + 1)

RECURSIVE rev_dfs(_, _, _, _, _)
RECURSIVE rev_dfs_arcs(_, _, _, _, _, _)

rev_dfs_arcs(G, ord, comp, A, root, n) ==
    IF n > Len(A) THEN comp
    ELSE rev_dfs_arcs(G, ord, rev_dfs(G, ord, comp, A[n][2], root), A, root, n + 1)

\* comp = the dict component as a sequence of <<state, root>> in insertion order
rev_dfs(G, ord, comp, u, root) ==
    IF \E n \in 1..Len(comp) : comp[n][1] = u THEN comp
    ELSE rev_dfs_arcs(G, ord, Append(comp, <<u, root>>), arcs(G, u, FALSE), root, 1)

RECURSIVE rev_dfs_all(_, _, _, _)
rev_dfs_all(G, ord, comp, stack) ==
    IF stack = <<>> THEN comp
    ELSE LET q == stack[Len(stack)]
         IN rev_dfs_all(G, ord, rev_dfs(G, ord, comp, q, q), SubSeq(stack, 1, Len(stack) - 1))

\* Kahn's algorithm on the components with a LIFO stack (scc.py:55-73)
RECURSIVE kahn(_, _, _, _)
RECURSIVE kahn_out(_, _, _, _)

\* ks = [in_deg, stack]; E = the inter-component edges <<cu, cv>> out of cu
kahn_out(ks, E, cu, n) ==
    IF n > Len(E) THEN ks
    ELSE IF E[n][1] # cu THEN kahn_out(ks, E, cu, n + 1)
    ELSE LET cv == E[n][2]
             d == ks.in_deg[cv] - 1
             ks1 == [ks EXCEPT !.in_deg[cv] = d,
                               !.stack = IF d = 0 THEN Append(@, cv) ELSE @]
         IN kahn_out(ks1, E, cu, n + 1)

kahn(sccs, E, ks, result) ==
    IF ks.stack = <<>> THEN result
    ELSE LET cu == ks.stack[Len(ks.stack)]
             ks1 == [ks EXCEPT !.stack = SubSeq(@, 1, Len(@) - 1)]
         IN kahn(sccs, E, kahn_out(ks1, E, cu, 1), Append(result, sccs[cu]))

\* the components in the topological order of the condensation (scc.py:55-73)
scc_order(Q, sccs, roots, E) ==
    LET in_deg == [c \in Range(roots) |-> Cardinality({n \in 1..Len(E) : E[n][2] = c})]
    IN kahn(sccs, E, [in_deg |-> in_deg,
                      stack |-> SelectSeq(roots, LAMBDA c : in_deg[c] = 0)], <<>>)

\* comp = <<state, root>> in the order the second pass has assigned them
scc_components(Q, A, comp) ==
    LET root(u) == comp[CHOOSE n \in 1..Len(comp) : comp[n][1] = u][2]
        roots == Distinct([n \in 1..Len(comp) |-> comp[n][2]])
    IN scc_order(Q, [c \in Range(roots) |-> {u \in Q : root(u) = c}], roots,
                 SelectSeq([n \in 1..Len(A) |-> <<root(A[n][1]), root(A[n][3])>>],
                           LAMBDA e : e[1] # e[2]))

scc(F, ord) ==
    IF ~ has_rows(F, F.Q) THEN Raise("KeyError")
    ELSE
    scc_components(F.Q, all_arcs(F, ord),
        rev_dfs_all(reverse(F, ord), ord, <<>>,
                    scc_dfs_all(F, ord, [visited |-> {}, stack |-> <<>>], 1).stack))

(***************************************************************************)
(* SCC-decomposed Lehmann (pathsum.py:307-369).                            *)
(***************************************************************************)
local_lehmann(F, ord, component) ==
    LET R == F.R
        cord == FilterSeq(ord, component)
        W == Table([pq \in component \X component |->
                 SumSet(R, F.Sigma, [a \in F.Sigma |-> Delta(F, pq[1], a, pq[2])])])
    IN add_diagonal(R, component, lehmann_loop(R, component, W, cord, 1))

\* "if q not in scc: beta[p] += w * beta[q]" over the arcs leaving the component
leaving(F, ord, component) ==
    SelectSeq(arcs_from(F, FilterSeq(ord, component), FALSE),
              LAMBDA e : e[3] \notin component)

\* beta[p] = sum over q of W[p, q] * beta[q] inside the component
decomposed_local(R, beta1, component, W) ==
    Table([q \in DOMAIN beta1 \cup component |->
        IF q \in component
        THEN SumSet(R, component,
                    [r \in component |-> Times(R, W[<<q, r>>], Get(R, beta1, r))])
        ELSE beta1[q]])

decomposed_step(F, ord, beta, component) ==
    decomposed_local(F.R, relax_bwd(F.R, beta, leaving(F, ord, component), 1),
                     component, local_lehmann(F, ord, component))

RECURSIVE decomposed_loop(_, _, _, _, _)
decomposed_loop(F, ord, beta, comps, n) ==
    IF n < 1 THEN beta
    ELSE decomposed_loop(F, ord, decomposed_step(F, ord, beta, comps[n]), comps, n - 1)

decomposed_comps(F, ord, comps) ==
    Ok(decomposed_loop(F, ord, base_F(F), comps, Len(comps)))

decomposed_lehmann_bwd(F, ord) ==
    IF Pathsum(F).err # "" THEN Pathsum(F)
    ELSE decomposed_comps(F, ord, scc(F, ord))

\* "for q in self.fsa.Q: pathsum += lam[q] * beta[q]" reads lam at every state
decomposed_lehmann_pathsum(F, ord) ==
    pathsum_of_bwd(F, decomposed_lehmann_bwd(F, ord))

\* allpairs_bwd (pathsum.py:170-177) recomputes lehmann() whatever W it is given
allpairs_bwd_sum(F, W) ==
    IF ~ has_rho(F, F.Q) THEN Raise("KeyError")
    ELSE
    Ok([p \in F.Q |->
           SumSet(F.R, F.Q, [q \in F.Q |-> Times(F.R, W[<<p, q>>], Rho(F, q))])])

allpairs_bwd(F, ord, W) ==
    IF Pathsum(F).err # "" THEN Pathsum(F)
    ELSE allpairs_bwd_sum(F, lehmann(F, ord, TRUE))

lehmann_bwd(F, ord) ==
    IF Pathsum(F).err # "" THEN Pathsum(F)
    ELSE allpairs_bwd(F, ord, lehmann(F, ord, TRUE))


(***************************************************************************)
(* Strategy dispatch: Pathsum.pathsum/forward/backward (pathsum.py:64-140) *)
(* and FSA.pathsum/forward/backward (fsa.py:419-433).                      *)
(***************************************************************************)
fixpoint(F, ord) == Raise("NotImplementedError")

allpairs_fwd(F, W) ==
    IF ~ has_lam(F, F.Q) THEN Raise("KeyError")
    ELSE
    Ok([q \in F.Q |->
           SumSet(F.R, F.Q, [p \in F.Q |-> Times(F.R, Lam(F, p), Get(F.R, W, <<p, q>>))])])

lehmann_fwd(F, ord) ==
    IF Pathsum(F).err # "" THEN Pathsum(F)
    ELSE allpairs_fwd(F, lehmann(F, ord, TRUE))

fwd_of_closure(F, W) == IF W.err # "" THEN W ELSE allpairs_fwd(F, W.val)

johnson_fwd(F, ord, ties) == fwd_of_closure(F, johnson(F, ord, ties))

bwd_of_closure(F, ord, W) == IF W.err # "" THEN W ELSE allpairs_bwd(F, ord, W.val)

johnson_bwd(F, ord, ties) == bwd_of_closure(F, ord, johnson(F, ord, ties))

Pathsum_pathsum(F, ord, ties, strategy) ==
    IF Pathsum(F).err # "" THEN Pathsum(F)
    ELSE
    CASE strategy = DIJKSTRA ->
            IF ~ superior(F.R) THEN Raise("AssertionError") ELSE dijkstra_early(F, ties)
      [] strategy = VITERBI ->
            IF ~ acyclic(F) THEN Raise("AssertionError") ELSE viterbi_pathsum(F, ord)
      [] strategy = BELLMANFORD ->
            IF ~ idempotent(F.R) THEN Raise("AssertionError") ELSE bellmanford_pathsum(F, ord)
      [] strategy = JOHNSON ->
            IF ~ idempotent(F.R) THEN Raise("AssertionError") ELSE johnson_pathsum(F, ord, ties)
      [] strategy = LEHMANN -> lehmann_pathsum(F, ord)
      [] strategy = FIXPOINT -> fixpoint(F, ord)
      [] strategy = DECOMPOSED_LEHMANN -> decomposed_lehmann_pathsum(F, ord)
      [] OTHER -> Raise("NotImplementedError")

Pathsum_forward(F, ord, ties, strategy) ==
    IF Pathsum(F).err # "" THEN Pathsum(F)
    ELSE
    CASE strategy = DIJKSTRA ->
            IF ~ superior(F.R) THEN Raise("AssertionError") ELSE dijkstra_fwd(F, ties)
      [] strategy = VITERBI ->
            IF ~ acyclic(F) THEN Raise("AssertionError") ELSE viterbi_fwd(F, ord)
      [] strategy = BELLMANFORD ->
            IF ~ idempotent(F.R) THEN Raise("AssertionError") ELSE bellmanford_fwd(F, ord)
      [] strategy = JOHNSON ->
            IF ~ idempotent(F.R) THEN Raise("AssertionError") ELSE johnson_fwd(F, ord, ties)
      [] strategy = LEHMANN -> lehmann_fwd(F, ord)
      [] strategy = FIXPOINT -> fixpoint(F, ord)
      [] OTHER -> Raise("NotImplementedError")

Pathsum_backward(F, ord, ties, strategy) ==
    IF Pathsum(F).err # "" THEN Pathsum(F)
    ELSE
    CASE strategy = VITERBI ->
            IF ~ acyclic(F) THEN Raise("AssertionError") ELSE viterbi_bwd(F, ord)
      [] strategy = BELLMANFORD ->
            IF ~ idempotent(F.R) THEN Raise("AssertionError") ELSE bellmanford_bwd(F, ord)
      [] strategy = JOHNSON ->
            IF ~ idempotent(F.R) THEN Raise("AssertionError") ELSE johnson_bwd(F, ord, ties)
      [] strategy = LEHMANN -> lehmann_bwd(F, ord)
      [] strategy = FIXPOINT -> fixpoint(F, ord)
      [] OTHER -> Raise("NotImplementedError")

\* "if self.acyclic" searches from the initial states and Pathsum(self) reads
\* the row of every state: a frozen automaton that lacks one is a missing key
\* in the one or in the other.
\* FSA.pathsum without the replacement of the strategy on acyclic automata
FSA_pathsum_as_requested(F, ord, ties, strategy) == Pathsum_pathsum(F, ord, ties, strategy)

FSA_pathsum(F, ord, ties, strategy) ==
    IF Pathsum(F).err # "" THEN Pathsum(F)
    ELSE Pathsum_pathsum(F, ord, ties, IF acyclic(F) THEN VITERBI ELSE strategy)

FSA_forward(F, ord, ties, strategy) ==
    IF Pathsum(F).err # "" THEN Pathsum(F)
    ELSE Pathsum_forward(F, ord, ties, IF acyclic(F) THEN VITERBI ELSE strategy)

FSA_backward(F, ord, ties, strategy) ==
    IF Pathsum(F).err # "" THEN Pathsum(F)
    ELSE Pathsum_backward(F, ord, ties, IF acyclic(F) THEN VITERBI ELSE strategy)


(***************************************************************************)
(* Drawing an automaton: at most MaxArcs arcs over the states States and   *)
(* the letters Ls with weights from ArcWeights, built by add_arc, and any  *)
(* sets of initial and final states, marked by set_I and set_F with their  *)
(* default weight one (fsa.py:66-89).  The set Q is iterated in ascending  *)
(* order of the state identities; the dicts delta, lam and rho are         *)
(* iterated in the order of the calls that filled them, and the arcs and   *)
(* the initial states are drawn in two orders, ascending and descending.   *)
(***************************************************************************)
Ord(F) == SeqOfSet(F.Q)

RECURSIVE add_arcs(_, _, _, _)
add_arcs(F, W, ks, n) ==
    IF n > Len(ks) THEN F
    ELSE add_arcs(add_arc(F, ks[n][1], ks[n][2], ks[n][3], W[ks[n]]), W, ks, n + 1)

RECURSIVE set_I_all(_, _, _)
set_I_all(F, qs, n) ==
    IF n > Len(qs) THEN F ELSE set_I_all(set_I(F, qs[n], One(F.R)), qs, n + 1)

RECURSIVE set_F_all(_, _, _)
set_F_all(F, qs, n) ==
    IF n > Len(qs) THEN F ELSE set_F_all(set_F(F, qs[n], One(F.R)), qs, n + 1)

\* the calls add_arc for the keys ks of W, set_I for is and set_F for fs
MakeFSAIn(R, W, ks, is, fs) ==
    set_F_all(set_I_all(add_arcs(FSA(R), W, ks, 1), is, 1), fs, 1)

MakeFSA(R, W, Is, Fs) ==
    MakeFSAIn(R, W, SeqOfKeys(DOMAIN W), SeqOfSet(Is), SeqOfSet(Fs))

\* a sequence as it is (up) or back to front
Dir(s, up) == IF up THEN s ELSE [n \in 1..Len(s) |-> s[Len(s) + 1 - n]]

ArcSets(Ls) == {A \in SUBSET (States \X Ls \X States) : Cardinality(A) <= MaxArcs}

ArcMaps(R, Ls) == UNION {[A -> ArcWeights(R)] : A \in ArcSets(Ls)}

\* fsa is a drawn automaton over one of the semirings Rs and the letters Ls
Drawn(Rs, Ls) ==
    \E R \in Rs : \E W \in ArcMaps(R, Ls) : \E Is \in SUBSET States :
        \E Fs \in SUBSET States : \E up \in BOOLEAN :
            fsa = MakeFSAIn(R, W, Dir(SeqOfKeys(DOMAIN W), up), Dir(SeqOfSet(Is), up),
                            SeqOfSet(Fs))

\* the automaton of a Pathsum object: Pathsum(fsa) (pathsum.py:24-37) has
\* called lift(), which has read the row of every state
Lifted(F) == read(F, F.Q, <<>>, <<>>)

\* (Ups: the directions in which the arcs and the initial states are inserted)
DrawnPathsum(Rs, Ls, Ups) ==
    \E R \in Rs : \E W \in ArcMaps(R, Ls) : \E Is \in SUBSET States :
        \E Fs \in SUBSET States : \E up \in Ups :
            fsa = Lifted(MakeFSAIn(R, W, Dir(SeqOfKeys(DOMAIN W), up),
                                   Dir(SeqOfSet(Is), up), SeqOfSet(Fs)))

\* the same with the arcs and the initial states in ascending order only
DrawnAscending(Rs, Ls) ==
    \E R \in Rs : \E W \in ArcMaps(R, Ls) : \E Is \in SUBSET States :
        \E Fs \in SUBSET States : fsa = MakeFSA(R, W, Is, Fs)

NoCall == [op |-> "none", res |-> <<>>]
Call(op, res) == [op |-> op, res |-> res]

\* freeze() (fsa.py:99-104, fst.py:65-71) on the automaton as built, before
\* it is passed to a call; it returns nothing.  Freezing a frozen automaton
\* changes nothing.
CallFreeze ==
    /\ out = NoCall
    /\ ~ fsa.frozen
    /\ fsa' = freeze(fsa)
    /\ UNCHANGED <<fsa2, order, cfg, counter, out>>

\* the same on the second operand
CallFreezeOther ==
    /\ out = NoCall
    /\ ~ fsa2.frozen
    /\ fsa2' = freeze(fsa2)
    /\ UNCHANGED <<fsa, order, cfg, counter, out>>

\* the constructions called on the automaton with the objects of the result
FrameOps == {"reverse", "trim", "union", "concatenate", "kleene_closure"}

\* freeze() after a call on the automaton has returned or raised: the
\* automaton holds what the call has read, and the result of the call is
\* dropped
CallFreezeAfter ==
    /\ out.op \in FrameOps
    /\ ~ fsa.frozen
    /\ fsa' = freeze(fsa)
    /\ out' = NoCall
    /\ UNCHANGED <<fsa2, order, cfg, counter>>

(***************************************************************************)
(* Spec: Pathsum.pathsum called on a drawn automaton, once per strategy    *)
(* value (0 and 8 are no strategy), before or after freeze(), the arcs and *)
(* the initial states inserted in ascending order.  The calls              *)
(* read the automaton: a read of a row, an initial or a final weight that  *)
(* is not there makes it, empty or zero, unless the automaton is frozen.   *)
(***************************************************************************)
Strategies == 0..8

\* the orders in which a set can be iterated
Orders(Q) == {s \in [1..Cardinality(Q) -> Q] : Range(s) = Q}

CallPathsumEngine ==
    /\ out = NoCall
    /\ \E ties \in Orders(fsa.Q) :
           out' = Call("Pathsum.pathsum",
                       [s \in Strategies |-> Pathsum_pathsum(fsa, order, ties, s)])
    /\ fsa' = read(fsa, fsa.Q, order, order)
    /\ UNCHANGED <<fsa2, order, cfg, counter>>

Init ==
    /\ DrawnPathsum({"Tropical", "Real"}, {"a"}, {TRUE})
    /\ fsa2 = FSA("Boolean")
    /\ order = Ord(fsa)
    /\ out = NoCall
    /\ cfg = CFG("Boolean")
    /\ counter = 0

Next == CallFreeze \/ CallPathsumEngine

Spec == Init /\ [][Next]_vars

(***************************************************************************)
(* SpecDispatch: FSA.pathsum, FSA.forward and FSA.backward called on a     *)
(* drawn automaton over a semiring that meets the strategies' semiring     *)
(* preconditions (Boolean) or fails them (Real), once per strategy value.  *)
(***************************************************************************)
CallPathsum ==
    /\ out = NoCall
    /\ \E up \in BOOLEAN :
           out' = Call("FSA.pathsum",
                       [s \in Strategies |-> FSA_pathsum(fsa, order, Dir(order, up), s)])
    /\ fsa' = read(fsa, fsa.Q, order, IF no_cycle(fsa) THEN <<>> ELSE order)
    /\ UNCHANGED <<fsa2, order, cfg, counter>>

CallForward ==
    /\ out = NoCall
    /\ \E up \in BOOLEAN :
           out' = Call("FSA.forward",
                       [s \in Strategies |-> FSA_forward(fsa, order, Dir(order, up), s)])
    /\ fsa' = read(fsa, fsa.Q, IF no_cycle(fsa) THEN <<>> ELSE order,
                   forward_reads_rho(fsa, order))
    /\ UNCHANGED <<fsa2, order, cfg, counter>>

CallBackward ==
    /\ out = NoCall
    /\ \E up \in BOOLEAN :
           out' = Call("FSA.backward",
                       [s \in Strategies |-> FSA_backward(fsa, order, Dir(order, up), s)])
    /\ fsa' = read(fsa, fsa.Q, backward_reads_lam(fsa, order),
                   IF no_cycle(fsa) THEN <<>> ELSE order)
    /\ UNCHANGED <<fsa2, order, cfg, counter>>

InitDispatch ==
    /\ Drawn({"Boolean", "Real"}, {"a"})
    /\ fsa2 = FSA("Boolean")
    /\ order = Ord(fsa)
    /\ out = NoCall
    /\ cfg = CFG("Boolean")
    /\ counter = 0

NextDispatch == CallFreeze \/ CallPathsum \/ CallForward \/ CallBackward

SpecDispatch == InitDispatch /\ [][NextDispatch]_vars

(***************************************************************************)
(* Paths of the graph of an automaton, for the statements about them: the  *)
(* simple paths as sequences of distinct states, the weight of a walk as   *)
(* the product of the summed arc weights between its consecutive states.   *)
(***************************************************************************)
SimplePaths(Q) ==
    {s \in UNION {[1..k -> Q] : k \in 1..Cardinality(Q)} :
        \A m, n \in DOMAIN s : m # n => s[m] # s[n]}

ArcSum(F, p, q) == SumSet(F.R, F.Sigma, [a \in F.Sigma |-> Delta(F, p, a, q)])

RECURSIVE WalkWeight(_, _, _)
WalkWeight(F, s, n) ==
    IF n >= Len(s) THEN One(F.R)
    ELSE Times(F.R, ArcSum(F, s[n], s[n + 1]), WalkWeight(F, s, n + 1))

\* the simple paths from p to q that exist in the automaton
PathsBetween(F, p, q) ==
    {s \in SimplePaths(F.Q) :
        /\ s[1] = p /\ s[Len(s)] = q
        /\ \A n \in 1..(Len(s) - 1) : ArcSum(F, s[n], s[n + 1]) # Zero(F.R)}

Reaches(F, p, q) == PathsBetween(F, p, q) # {}

\* a cycle through q of negative weight (Tropical)
NegativeCycleAt(F, q) ==
    \E r \in F.Q : \E s \in PathsBetween(F, q, r) :
        /\ ArcSum(F, r, q) # Zero(F.R)
        /\ Times(F.R, WalkWeight(F, s, 1), ArcSum(F, r, q)) < 0

HasNegativeCycle(F) == \E q \in F.Q : NegativeCycleAt(F, q)

(***************************************************************************)
(* Statements about the pathsum strategies, under Spec.                    *)
(***************************************************************************)
SixStrategies == {VITERBI, BELLMANFORD, DIJKSTRA, LEHMANN, JOHNSON, DECOMPOSED_LEHMANN}

\* acyclic, and the semiring idempotent, superior, closed and with inverses
MeetsAllPreconditions(F) == F.R = "Tropical" /\ acyclic(F)

\* C1: on an automaton that meets the preconditions of all strategies,
\* Pathsum.pathsum returns the same value for each of the six strategies.
C1_SixStrategiesAgree ==
    (out.op = "Pathsum.pathsum" /\ MeetsAllPreconditions(fsa))
        => \A s, t \in SixStrategies : out.res[s] = out.res[t]

\* C2: over the Tropical semiring, on an automaton (cyclic or not) without a
\* cycle of negative weight, pathsum(JOHNSON) equals pathsum(LEHMANN).
C2_JohnsonEqualsLehmann ==
    (out.op = "Pathsum.pathsum" /\ fsa.R = "Tropical" /\ ~ HasNegativeCycle(fsa))
        => out.res[JOHNSON] = out.res[LEHMANN]

\* the property acyclic is read without an error and holds
holds_acyclic(F) == has_rows(F, dfs_visited(F)) /\ acyclic(F)

\* C5: when the automaton is acyclic, FSA.pathsum, FSA.forward and
\* FSA.backward return the Viterbi result for every requested strategy value.
C5_AcyclicDispatch ==
    holds_acyclic(fsa) =>
        /\ out.op = "FSA.pathsum" =>
               \A s \in Strategies : out.res[s] = viterbi_pathsum(fsa, order)
        /\ out.op = "FSA.forward" =>
               \A s \in Strategies : out.res[s] = viterbi_fwd(fsa, order)
        /\ out.op = "FSA.backward" =>
               \A s \in Strategies : out.res[s] = viterbi_bwd(fsa, order)

\* an acyclic automaton with arcs over the Real semiring, where Dijkstra's
\* precondition fails and the Dijkstra pathsum is not implemented, yet
\* FSA.pathsum(DIJKSTRA) has returned the Viterbi value
C5_Witness ==
    /\ out.op = "FSA.pathsum"
    /\ holds_acyclic(fsa)
    /\ fsa.R = "Real"
    /\ \E k \in DOMAIN fsa.delta : k[1] \in I(fsa) /\ k[3] \in Fin(fsa)
    /\ out.res[DIJKSTRA].err = ""
    /\ out.res[DIJKSTRA].val # Zero("Real")
    /\ Pathsum_pathsum(fsa, order, order, DIJKSTRA).err = "AssertionError"

(***************************************************************************)
(* SpecLehmann: the SCC-decomposed Lehmann algorithm called on a drawn      *)
(* automaton.                                                              *)
(***************************************************************************)
CallDecomposedPathsum ==
    /\ out = NoCall
    /\ out' = Call("decomposed_lehmann_pathsum", decomposed_lehmann_pathsum(fsa, order))
    /\ fsa' = read(fsa, fsa.Q, order, <<>>)
    /\ UNCHANGED <<fsa2, order, cfg, counter>>

CallDecomposedBwd ==
    /\ out = NoCall
    /\ out' = Call("decomposed_lehmann_bwd", decomposed_lehmann_bwd(fsa, order))
    /\ fsa' = read(fsa, fsa.Q, <<>>, <<>>)
    /\ UNCHANGED <<fsa2, order, cfg, counter>>

InitLehmann ==
    /\ DrawnPathsum({"Tropical", "Real", "Boolean"}, {"a"}, BOOLEAN)
    /\ fsa2 = FSA("Boolean")
    /\ order = Ord(fsa)
    /\ out = NoCall
    /\ cfg = CFG("Boolean")
    /\ counter = 0

NextLehmann == CallFreeze \/ CallDecomposedPathsum \/ CallDecomposedBwd

SpecLehmann == InitLehmann /\ [][NextLehmann]_vars

\* the semiring is closed on the automaton: every star the closure takes is defined
Defined(W) == \A k \in DOMAIN W : W[k] # Bot
Closed(F) == Defined(lehmann(thawed(F), Ord(F), TRUE))

\* the chart a gives every state of Q the value of the chart b
SameChart(R, Q, a, b) == \A q \in Q : Get(R, a, q) = b[q]

\* C3: over a closed semiring decomposed_lehmann_pathsum equals
\* lehmann_pathsum, and decomposed_lehmann_bwd gives every state the Lehmann
\* backward weight.
C3_DecomposedEqualsLehmann ==
    /\ (out.op = "decomposed_lehmann_pathsum" /\ Closed(fsa)) =>
           out.res = lehmann_pathsum(fsa, order)
    /\ (out.op = "decomposed_lehmann_bwd" /\ Closed(fsa)) =>
           /\ out.res.err = ""
           /\ SameChart(fsa.R, fsa.Q, out.res.val, lehmann_bwd(fsa, order).val)

\* the same statement where the Lehmann computations return: lehmann_pathsum
\* and lehmann_bwd raise KeyError on a frozen automaton with a state that
\* has no entry in rho (lehmann_pathsum: or in lam)
C3_DecomposedWhereLehmannReturns ==
    /\ (out.op = "decomposed_lehmann_pathsum" /\ Closed(fsa)
            /\ lehmann_pathsum(fsa, order).err = "") =>
           out.res = lehmann_pathsum(fsa, order)
    /\ (out.op = "decomposed_lehmann_bwd" /\ Closed(fsa)
            /\ lehmann_bwd(fsa, order).err = "") =>
           /\ out.res.err = ""
           /\ SameChart(fsa.R, fsa.Q, out.res.val, lehmann_bwd(fsa, order).val)

\* a cyclic automaton of several components: a state with a loop and an arc
\* that leaves its component for a final state, with a backward weight
C3_Witness ==
    /\ out.op = "decomposed_lehmann_bwd"
    /\ Closed(fsa)
    /\ Len(scc(thawed(fsa), order)) >= 2
    /\ \E p, q \in fsa.Q :
           /\ p # q /\ q \in Fin(fsa) /\ p \notin Fin(fsa)
           /\ Delta(fsa, p, "a", p) # Zero(fsa.R)
           /\ Delta(fsa, p, "a", q) # Zero(fsa.R)
           /\ Get(fsa.R, out.res.val, p) # Zero(fsa.R)

(***************************************************************************)
(* SpecScenario: the automaton and the calls of the script at the end of   *)
(* fsa.py (fsa.py:782-801), under every iteration order of its states.     *)
(***************************************************************************)
Scenario1 ==
    set_F(
      add_arc(
        add_arc(
          add_arc(
            add_arc(
              add_arc(
                add_arc(
                  add_arc(set_I(FSA("Tropical"), 0, One("Tropical")),
                          0, "a", 1, 1),
                  0, "a", 2, 2),
                1, "b", 1, 3),
              2, "b", 2, 3),
            1, "c", 3, 5),
          2, "d", 3, 6),
        2, "d", 1, -2),
      3, One("Tropical"))

CallDijkstraFwd ==
    /\ out = NoCall
    /\ \E ties \in Orders(fsa.Q) : out' = Call("dijkstra_fwd", dijkstra_fwd(fsa, ties))
    /\ fsa' = read(fsa, fsa.Q, <<>>, <<>>)
    /\ UNCHANGED <<fsa2, order, cfg, counter>>

CallBellmanFordFwd ==
    /\ out = NoCall
    /\ out' = Call("bellmanford_fwd", bellmanford_fwd(fsa, order))
    /\ fsa' = read(fsa, fsa.Q, <<>>, <<>>)
    /\ UNCHANGED <<fsa2, order, cfg, counter>>

CallPathsumLehmann ==
    /\ out = NoCall
    /\ out' = Call("pathsum(LEHMANN)", FSA_pathsum(fsa, order, order, LEHMANN))
    /\ fsa' = read(fsa, fsa.Q, order, IF no_cycle(fsa) THEN <<>> ELSE order)
    /\ UNCHANGED <<fsa2, order, cfg, counter>>

CallPathsumJohnson ==
    /\ out = NoCall
    /\ \E ties \in Orders(fsa.Q) :
           /\ out' = Call("pathsum(JOHNSON)", FSA_pathsum(fsa, order, ties, JOHNSON))
           /\ fsa' = read(fsa, fsa.Q, FSA_johnson_reads(fsa, order, ties).lam,
                          FSA_johnson_reads(fsa, order, ties).rho)
    /\ UNCHANGED <<fsa2, order, cfg, counter>>

InitScenario ==
    /\ fsa = Scenario1
    /\ fsa2 = FSA("Boolean")
    /\ order \in Orders(fsa.Q)
    /\ out = NoCall
    /\ cfg = CFG("Boolean")
    /\ counter = 0

NextScenario ==
    CallFreeze \/ CallDijkstraFwd \/ CallBellmanFordFwd \/ CallPathsumLehmann \/ CallPathsumJohnson

SpecScenario == InitScenario /\ [][NextScenario]_vars

\* C4: on the automaton of scenario 1, dijkstra_fwd and bellmanford_fwd
\* return the same forward weight for every state.
C4_DijkstraEqualsBellmanFord ==
    out.op = "dijkstra_fwd" =>
        /\ out.res.err = ""
        /\ bellmanford_fwd(fsa, order).err = ""
        /\ SameChart(fsa.R, fsa.Q, out.res.val,
                     touch(fsa.R, bellmanford_fwd(fsa, order).val, fsa.Q))

(***************************************************************************)
(* SpecBellmanFord: bellmanford_fwd and bellmanford_bwd on the drawn       *)
(* Tropical automata (arc weights -1 and 1).                               *)
(***************************************************************************)
CallBellmanFordBwd ==
    /\ out = NoCall
    /\ out' = Call("bellmanford_bwd", bellmanford_bwd(fsa, order))
    /\ fsa' = read(fsa, fsa.Q, <<>>, <<>>)
    /\ UNCHANGED <<fsa2, order, cfg, counter>>

InitBellmanFord ==
    /\ DrawnPathsum({"Tropical"}, {"a"}, BOOLEAN)
    /\ fsa2 = FSA("Boolean")
    /\ order = Ord(fsa)
    /\ out = NoCall
    /\ cfg = CFG("Boolean")
    /\ counter = 0

NextBellmanFord == CallFreeze \/ CallBellmanFordFwd \/ CallBellmanFordBwd

SpecBellmanFord == InitBellmanFord /\ [][NextBellmanFord]_vars

\* a cycle of negative weight through a state a source reaches
NegativeCycleFromSource(F) ==
    \E s \in I(F) : \E q \in F.Q : Reaches(F, s, q) /\ NegativeCycleAt(F, q)

\* a cycle of negative weight through a state that reaches a final state
NegativeCycleToFinal(F) ==
    \E f \in Fin(F) : \E q \in F.Q : Reaches(F, q, f) /\ NegativeCycleAt(F, q)

\* the least weight of a simple path from a source to q, initial weight included
MinFromSources(F, q) ==
    LET P == UNION {PathsBetween(F, s, q) : s \in I(F)}
    IN SumSet(F.R, P, [s \in P |-> Times(F.R, Lam(F, s[1]), WalkWeight(F, s, 1))])

\* the least weight of a simple path from q to a final state, final weight included
MinToFinals(F, q) ==
    LET P == UNION {PathsBetween(F, q, f) : f \in Fin(F)}
    IN SumSet(F.R, P, [s \in P |-> Times(F.R, WalkWeight(F, s, 1), Rho(F, s[Len(s)]))])

\* the chart c holds an entry for every state of Q, with the value of m
GivesEveryState(c, Q, m(_)) == \A q \in Q : q \in DOMAIN c /\ c[q] = m(q)

\* the entries of the chart c are states of Q with the value of m, and a
\* state of Q without an entry is one that m gives zero, the weight of no path
GivesItsEntries(R, c, Q, m(_)) ==
    /\ DOMAIN c \subseteq Q
    /\ \A q \in DOMAIN c : c[q] = m(q)
    /\ \A q \in Q \ DOMAIN c : m(q) = Zero(R)

\* C6: over the Tropical semiring bellmanford_fwd raises exactly when a cycle
\* of negative weight is reachable from a source, and otherwise returns a
\* chart that gives every state of Q the least weight of a path from the
\* sources; bellmanford_bwd raises exactly when such a cycle reaches a final
\* state, and otherwise returns a chart that gives every state of Q the
\* least weight of a path to the final states.
C6_BellmanFord ==
    /\ out.op = "bellmanford_fwd" =>
           /\ (out.res.err # "") <=> NegativeCycleFromSource(fsa)
           /\ out.res.err # "" => out.res = Raise("AttributeError")
           /\ out.res.err = "" =>
                  GivesEveryState(out.res.val, fsa.Q, LAMBDA q : MinFromSources(fsa, q))
    /\ out.op = "bellmanford_bwd" =>
           /\ (out.res.err # "") <=> NegativeCycleToFinal(fsa)
           /\ out.res.err # "" => out.res = Raise("AttributeError")
           /\ out.res.err = "" =>
                  GivesEveryState(out.res.val, fsa.Q, LAMBDA q : MinToFinals(fsa, q))

\* the same statement for the entries the returned chart holds: the initial
\* (final) states and the ends of the arcs.  A state of Q without an entry is
\* one no path from a source reaches (that reaches no final state)
C6_BellmanFordOnEntries ==
    /\ out.op = "bellmanford_fwd" =>
           /\ (out.res.err # "") <=> NegativeCycleFromSource(fsa)
           /\ out.res.err # "" => out.res = Raise("AttributeError")
           /\ out.res.err = "" =>
                  /\ GivesItsEntries(fsa.R, out.res.val, fsa.Q,
                                     LAMBDA q : MinFromSources(fsa, q))
                  /\ DOMAIN out.res.val = I(fsa) \cup endpoints(all_arcs(thawed(fsa), order))
    /\ out.op = "bellmanford_bwd" =>
           /\ (out.res.err # "") <=> NegativeCycleToFinal(fsa)
           /\ out.res.err # "" => out.res = Raise("AttributeError")
           /\ out.res.err = "" =>
                  /\ GivesItsEntries(fsa.R, out.res.val, fsa.Q,
                                     LAMBDA q : MinToFinals(fsa, q))
                  /\ DOMAIN out.res.val = Fin(fsa) \cup endpoints(all_arcs(thawed(fsa), order))

\* bellmanford_fwd has raised on a negative cycle away from the source
C6_Witness ==
    /\ out.op = "bellmanford_fwd"
    /\ out.res = Raise("AttributeError")
    /\ \E s \in I(fsa) : \E q \in fsa.Q :
           /\ q # s
           /\ ~ NegativeCycleAt(fsa, s)
           /\ Reaches(fsa, s, q)
           /\ NegativeCycleAt(fsa, q)

(***************************************************************************)
(* Intersection (fsa.py:449-499).  A product state is the pair <<q1, q2>>; *)
(* the worklist and the visited set hold triples <<q1, q2, qf>> with the   *)
(* state qf of the epsilon filter.                                         *)
(***************************************************************************)
PairState(p, q) == <<p, q>>

\* the filter's reject state
FilterBot == -1

\* the epsilon filter: the table of allowed transitions
epsilon_filter(a1, a2, qf) ==
    IF a1 = a2 /\ a1 \notin {Eps, Eps1, Eps2} THEN 0
    ELSE IF a1 = Eps2 /\ a2 = Eps2 /\ qf \in {0, 1} THEN 1
    ELSE IF a1 = Eps1 /\ a2 = Eps1 /\ qf \in {0, 2} THEN 2
    ELSE FilterBot

\* [(a if a != eps else e, j, w) for (a, j, w) in arcs] + [(own, q, one)]
tagged_arcs(R, A, e, own, q) ==
    [n \in 1..Len(A) |-> <<IF A[n][1] = Eps THEN e ELSE A[n][1], A[n][2], A[n][3]>>]
        \o << <<own, q, One(R)>> >>

\* product(E1, E2) restricted to the pairs the filter allows in state qf
matches(E1, E2, qf) ==
    SelectSeq(Flatten([n \in 1..Len(E1) |-> [m \in 1..Len(E2) |-> <<E1[n], E2[m]>>]]),
              LAMBDA e : epsilon_filter(e[1][1], e[2][1], qf) # FilterBot)

\* the loop over M for the popped <<q1, q2, qf>>
RECURSIVE intersect_arcs(_, _, _, _, _)
intersect_arcs(R, st, M, t, n) ==
    IF n > Len(M) THEN st
    ELSE LET e1 == M[n][1]
             e2 == M[n][2]
             next == <<e1[2], e2[2], epsilon_filter(e1[1], e2[1], t[3])>>
             P1 == set_arc(st.P, PairState(t[1], t[2]), e1[1],
                           PairState(e1[2], e2[2]), Times(R, e1[3], e2[3]))
         IN IF next \in st.visited
            THEN intersect_arcs(R, [st EXCEPT !.P = P1], M, t, n + 1)
            ELSE intersect_arcs(R, [st EXCEPT !.P = P1,
                                              !.stack = Append(@, next),
                                              !.visited = @ \cup {next}], M, t, n + 1)

\* final state handling for the popped <<q1, q2, qf>>
intersect_final(F1, F2, st, t) ==
    IF t[1] \in Fin(F1) /\ t[2] \in Fin(F2)
    THEN [st EXCEPT !.P = add_F(@, PairState(t[1], t[2]),
                                Times(F1.R, F1.rho[t[1]], F2.rho[t[2]]))]
    ELSE st

\* "while stack": the popped <<q1, q2, qf>> has self.arcs(q1) read, then
\* fsa.arcs(q2); rows1 and rows2 are the rows read so far.  On a frozen
\* automaton the row of a popped state that was never read or written is a
\* missing key, which ends the call where it is
RECURSIVE intersect_loop(_, _, _, _, _)
intersect_loop(F1, F2, ord1, ord2, st) ==
    IF st.stack = <<>> THEN st
    ELSE LET t == st.stack[Len(st.stack)]
             popped == [st EXCEPT !.stack = SubSeq(@, 1, Len(@) - 1)]
             read1 == [popped EXCEPT !.rows1 = @ \cup {t[1]}]
             read2 == [read1 EXCEPT !.rows2 = @ \cup {t[2]}]
             E1 == tagged_arcs(F1.R, arcs(F1, t[1], FALSE), Eps2, Eps1, t[1])
             E2 == tagged_arcs(F1.R, arcs(F2, t[2], FALSE), Eps1, Eps2, t[2])
         IN IF ~ has_rows(F1, {t[1]}) THEN [popped EXCEPT !.err = "KeyError"]
            ELSE IF ~ has_rows(F2, {t[2]}) THEN [read1 EXCEPT !.err = "KeyError"]
            ELSE intersect_loop(F1, F2, ord1, ord2,
                     intersect_final(F1, F2,
                         intersect_arcs(F1.R, read2, matches(E1, E2, t[3]), t, 1), t))

\* product(self.I, fsa.I) as a sequence of pairs
initial_pairs(F1, F2, ord1, ord2) ==
    LET i1 == I_items(F1)
        i2 == I_items(F2)
    IN Flatten([n \in 1..Len(i1) |-> [m \in 1..Len(i2) |-> <<i1[n], i2[m]>>]])

RECURSIVE intersect_initials(_, _, _, _, _)
intersect_initials(F1, F2, P, ps, n) ==
    IF n > Len(ps) THEN P
    ELSE intersect_initials(F1, F2,
             add_I(P, PairState(ps[n][1], ps[n][2]),
                   Times(F1.R, F1.lam[ps[n][1]], F2.lam[ps[n][2]])),
             ps, n + 1)

intersect_from(F1, F2, ord1, ord2, ps) ==
    intersect_loop(F1, F2, ord1, ord2,
        [P |-> intersect_initials(F1, F2, FSA(F1.R), ps, 1),
         stack |-> [n \in 1..Len(ps) |-> <<ps[n][1], ps[n][2], 0>>],
         visited |-> {<<ps[n][1], ps[n][2], 0>> : n \in 1..Len(ps)},
         rows1 |-> {}, rows2 |-> {}, err |-> ""])

\* the run of self.intersect(fsa): the product built, the rows of self and
\* of fsa it has read, and the exception it has ended with, if any
intersect_run(F1, F2, ord1, ord2) ==
    IF F1.R # F2.R
    THEN [P |-> FSA(F1.R), stack |-> <<>>, visited |-> {}, rows1 |-> {}, rows2 |-> {},
          err |-> "AssertionError"]
    ELSE intersect_from(F1, F2, ord1, ord2, initial_pairs(F1, F2, ord1, ord2))

\* what the run returns or raises
intersect_result(run) == IF run.err # "" THEN Raise(run.err) ELSE Ok(run.P)

intersect(F1, F2, ord1, ord2) == intersect_result(intersect_run(F1, F2, ord1, ord2))

\* a set of pairs as a sequence, in lexicographic order
LexOrd(Q) ==
    LET xs == SeqOfSet({q[1] : q \in Q})
        ys == SeqOfSet({q[2] : q \in Q})
    IN FilterSeq(Flatten([n \in 1..Len(xs) |-> [m \in 1..Len(ys) |-> <<xs[n], ys[m]>>]]), Q)

\* accept (fsa.py:127-139): the automaton of the string, a chain of the
\* states 0 to len(string) with one arc of weight one per character
RECURSIVE string_arcs(_, _, _)
string_arcs(G, s, n) ==
    IF n > Len(s) THEN G
    ELSE string_arcs(add_arc(G, n - 1, s[n], n, One(G.R)), s, n + 1)

string_fsa(R, s) == add_F(set_I(string_arcs(FSA(R), s, 1), 0, One(R)), Len(s), One(R))

\* the run of self.intersect(fsa) that accept makes
accept_run(F, ord, s) ==
    LET G == string_fsa(F.R, s) IN intersect_run(F, G, ord, Ord(G))

\* "return self.intersect(fsa).pathsum()": the pathsum of the product with
\* the default strategy, LEHMANN
product_pathsum(run) ==
    IF run.err # "" THEN Raise(run.err)
    ELSE FSA_pathsum(run.P, LexOrd(run.P.Q), LexOrd(run.P.Q), LEHMANN)

accept(F, ord, s) == product_pathsum(accept_run(F, ord, s))

\* coaccessible_intersection (fsa.py:507-509):
\* self.reverse().intersect(fsa.reverse()).reverse().  self is reversed
\* first, then fsa; qs is the order in which the last reverse iterates the
\* set of states of the product
coaccessible_product(F1, F2, ord1, ord2) ==
    LET r1 == reverse(F1, ord1)
        r2 == reverse(F2, ord2)
    IN IF Raised(r1) THEN r1
       ELSE IF Raised(r2) THEN r2
       ELSE intersect(r1, r2, FilterSeq(ord1, r1.Q), FilterSeq(ord2, r2.Q))

\* the last reverse, of the product P or of what was raised for it
reverse_product(P, qs) == IF P.err # "" THEN P ELSE Ok(reverse(P.val, qs))

coaccessible_intersection(F1, F2, ord1, ord2, qs) ==
    reverse_product(coaccessible_product(F1, F2, ord1, ord2), qs)

\* the states of the product P that the last reverse iterates
product_Q(P) == IF P.err # "" THEN {} ELSE P.val.Q

(***************************************************************************)
(* SpecIntersect: F1.intersect(F2) and F2.intersect(F1) on two drawn       *)
(* automata over the states 0 and 1, the letter a and epsilon.             *)
(***************************************************************************)
PairStates == {0, 1}

ArcMapsOn(R, Qs, Ls, n) ==
    UNION {[A -> ArcWeights(R)] :
               A \in {B \in SUBSET (Qs \X Ls \X Qs) : Cardinality(B) <= n}}

\* the iteration order of the product states: pairs in lexicographic order
PairOrd(P) ==
    LET o == SeqOfSet(PairStates)
    IN FilterSeq(Flatten([n \in 1..Len(o) |-> [m \in 1..Len(o) |-> <<o[n], o[m]>>]]), P.Q)

CallIntersect ==
    /\ out = NoCall
    /\ \E run \in {intersect_run(fsa, fsa2, order, Ord(fsa2))} :
           /\ out' = Call("intersect", intersect_result(run))
           /\ fsa' = read(fsa, run.rows1, <<>>, <<>>)
           /\ fsa2' = read(fsa2, run.rows2, <<>>, <<>>)
    /\ UNCHANGED <<order, cfg, counter>>

CallIntersectSwapped ==
    /\ out = NoCall
    /\ \E run \in {intersect_run(fsa2, fsa, Ord(fsa2), order)} :
           /\ out' = Call("intersect swapped", intersect_result(run))
           /\ fsa' = read(fsa, run.rows2, <<>>, <<>>)
           /\ fsa2' = read(fsa2, run.rows1, <<>>, <<>>)
    /\ UNCHANGED <<order, cfg, counter>>

\* the product is a set of PairState objects: every order is one in which
\* the last reverse may iterate it.  self.reverse() reads the row of every
\* state of self, then fsa.reverse() that of every state of fsa
CallCoaccessibleIntersection ==
    /\ out = NoCall
    /\ \E P \in {coaccessible_product(fsa, fsa2, order, Ord(fsa2))} :
       \E qs \in Orders(product_Q(P)) :
           out' = Call("coaccessible_intersection", reverse_product(P, qs))
    /\ fsa' = read(fsa, fsa.Q, <<>>, <<>>)
    /\ fsa2' = read(fsa2, IF has_rows(fsa, fsa.Q) THEN fsa2.Q ELSE {}, <<>>, <<>>)
    /\ UNCHANGED <<order, cfg, counter>>

InitIntersect ==
    /\ \E R \in {"Real", "Boolean"} :
           \E W1 \in ArcMapsOn(R, PairStates, {"a", Eps}, MaxArcs) :
           \E W2 \in ArcMapsOn(R, PairStates, {"a", Eps}, MaxArcs - 1) :
           \E Is1 \in SUBSET PairStates, Fs1 \in SUBSET PairStates, Fs2 \in SUBSET PairStates :
               /\ Is1 # {} /\ Fs1 # {} /\ Fs2 # {}
               /\ fsa = MakeFSA(R, W1, Is1, Fs1)
               /\ fsa2 = MakeFSA(R, W2, {0}, Fs2)
    /\ order = Ord(fsa)
    /\ out = NoCall
    /\ cfg = CFG("Boolean")
    /\ counter = 0

NextIntersect ==
    \/ CallFreeze \/ CallFreezeOther \/ CallIntersect \/ CallIntersectSwapped
    \/ CallCoaccessibleIntersection

SpecIntersect == InitIntersect /\ [][NextIntersect]_vars

(***************************************************************************)
(* The weight an automaton gives a string: the sum over the accepting      *)
(* paths that spell it once the labels eps, eps1 and eps2 are erased,      *)
(* computed with the closure of the erased arcs between the letters.       *)
(***************************************************************************)
Erased == {Eps, Eps1, Eps2}

erased_closure(F, ord) ==
    LET R == F.R
        U == Table([pq \in F.Q \X F.Q |->
                 SumSet(R, F.Sigma \cap Erased,
                        [a \in F.Sigma \cap Erased |-> Delta(F, pq[1], a, pq[2])])])
    IN add_diagonal(R, F.Q, lehmann_loop(R, F.Q, U, ord, 1))

\* the row vector v times the matrix M
VecMat(R, Q, v, M) ==
    Table([q \in Q |-> SumSet(R, Q, [p \in Q |-> Times(R, v[p], M[<<p, q>>])])])

letter_matrix(F, a) == Table([pq \in F.Q \X F.Q |-> Delta(F, pq[1], a, pq[2])])

RECURSIVE Spell(_, _, _, _, _)
Spell(F, v, E, s, n) ==
    IF n > Len(s) \/ v = <<>> THEN v
    ELSE Spell(F, VecMat(F.R, F.Q, VecMat(F.R, F.Q, v, letter_matrix(F, s[n])), E),
               E, s, n + 1)

StringWeightWith(F, E, s) ==
    LET R == F.R
        v == Spell(F, VecMat(R, F.Q, Table([q \in F.Q |-> Lam(F, q)]), E), E, s, 1)
    IN SumSet(R, F.Q, [q \in F.Q |-> Times(R, v[q], Rho(F, q))])

StringWeight(F, ord, s) == StringWeightWith(F, erased_closure(F, ord), s)

Strings == {<<>>, <<"a">>, <<"a", "a">>}

\* the product gives s the weight w1 (x) w2, where both are defined
ProductWeighs(P, s, w1, w2) ==
    (w1 # Bot /\ w2 # Bot) => StringWeight(P, PairOrd(P), s) = Times(P.R, w1, w2)

\* C7: F1.intersect(F2) gives every string s the weight
\* weight_F1(s) (x) weight_F2(s), in idempotent and in non-idempotent
\* semirings, with epsilon arcs in either operand; and the pathsum of
\* F1.intersect(F2) is the pathsum of F2.intersect(F1).
C7_IntersectWeights ==
    out.op = "intersect" =>
        /\ \A s \in Strings :
               ProductWeighs(out.res.val, s, StringWeight(fsa, order, s),
                             StringWeight(fsa2, Ord(fsa2), s))
        /\ FSA_pathsum(out.res.val, PairOrd(out.res.val), PairOrd(out.res.val), LEHMANN)
               = FSA_pathsum(intersect(fsa2, fsa, Ord(fsa2), order).val,
                             PairOrd(intersect(fsa2, fsa, Ord(fsa2), order).val), PairOrd(intersect(fsa2, fsa, Ord(fsa2), order).val), LEHMANN)

\* the weight w1 (x) w2 of the two arcs matched in the product arc k
MatchedWeight(F1, F2, k) ==
    LET p == k[1]
        a == k[2]
        q == k[3]
    IN IF a = Eps2 THEN Times(F1.R, Delta(F1, p[1], Eps, q[1]), One(F1.R))
       ELSE IF a = Eps1 THEN Times(F1.R, One(F1.R), Delta(F2, p[2], Eps, q[2]))
       ELSE Times(F1.R, Delta(F1, p[1], a, q[1]), Delta(F2, p[2], a, q[2]))

\* C8: in F1.intersect(F2) every product state <<p, q>> has the final weight
\* rho1(p) (x) rho2(q) and every product arc the weight w1 (x) w2 of the two
\* matched arcs, in however many filter states the pair is reached.
C8_ProductWeights ==
    out.op = "intersect" =>
        /\ \A pq \in out.res.val.Q :
               Rho(out.res.val, pq) = Times(fsa.R, Rho(fsa, pq[1]), Rho(fsa2, pq[2]))
        /\ \A k \in DOMAIN out.res.val.delta :
               out.res.val.delta[k] = MatchedWeight(fsa, fsa2, k)

(***************************************************************************)
(* Determinization (fsa.py:164-182).  The PowerState in effect is the      *)
(* second class of that name in state.py (state.py:117-143): its identity  *)
(* is the residual map, hashed by PowerState.__hash__ as the frozenset of  *)
(* its items (state.py:142-143), and it has no attribute "residuals".      *)
(* The class Transformer defines _powerarcs only (transformer.py:17-32),   *)
(* so the lookup Transformer.powerarcs of the first pop fails.             *)
(***************************************************************************)
\* no symbol takes i to two states with a non-zero weight
deterministic_at(F, i) ==
    \A a \in F.Sigma : Cardinality({j \in F.Q : Delta(F, i, a, j) # Zero(F.R)}) <= 1

\* the states in the order ord the set Q is iterated in (fsa.py:279-288): the
\* first state with two such arcs ends the loop, and a state reached before
\* that whose row a frozen automaton does not hold is a missing key
RECURSIVE deterministic_from(_, _, _)
deterministic_from(F, ord, n) ==
    IF n > Len(ord) THEN Ok(TRUE)
    ELSE IF ~ has_rows(F, {ord[n]}) THEN Raise("KeyError")
    ELSE IF ~ deterministic_at(F, ord[n]) THEN Ok(FALSE)
    ELSE deterministic_from(F, ord, n + 1)

deterministic(F, ord) == deterministic_from(F, ord, 1)

PowerState(residual_map) == residual_map

\* the attribute lookup Transformer.powerarcs
Transformer_powerarcs(F, Q) == Raise("AttributeError")

\* the body of "for a, QP, wp in ...": a new power state reads QP.residuals
RECURSIVE determinize_arcs(_, _, _, _)
determinize_arcs(det, Q, A, n) ==
    IF n > Len(A) THEN Ok(det)
    ELSE IF A[n][2] \notin det.Q THEN Raise("AttributeError")
    ELSE determinize_arcs(add_arc(det, Q, A[n][1], A[n][2], A[n][3]), Q, A, n + 1)

\* the rest of the loop once the arcs of the popped Q are known
RECURSIVE determinize_loop(_, _, _)
determinize_next(F, stack, d) ==
    IF d.err # "" THEN d ELSE determinize_loop(F, d.val, stack)

determinize_pop(F, det, stack, Q, A) ==
    IF A.err # "" THEN A
    ELSE determinize_next(F, stack, determinize_arcs(det, Q, A.val, 1))

determinize_loop(F, det, stack) ==
    IF stack = <<>> THEN Ok(det)
    ELSE determinize_pop(F, det, SubSeq(stack, 1, Len(stack) - 1), stack[Len(stack)],
                         Transformer_powerarcs(F, stack[Len(stack)]))

\* QI is hashable (PowerState.__hash__); the first pop calls
\* Transformer.powerarcs, a name the class does not have
determinize(F) ==
    LET QI == PowerState(base_I(F))
    IN determinize_loop(F, set_I(spawn(F), QI, One(F.R)), <<QI>>)

(***************************************************************************)
(* SpecDeterminize: determinize on the drawn epsilon-free automata.        *)
(***************************************************************************)
CallDeterminize ==
    /\ out = NoCall
    /\ out' = Call("determinize", determinize(fsa))
    /\ UNCHANGED <<fsa, fsa2, order, cfg, counter>>

InitDeterminize ==
    /\ Drawn({"Boolean", "Tropical"}, {"a"})
    /\ fsa2 = FSA("Boolean")
    /\ order = Ord(fsa)
    /\ out = NoCall
    /\ cfg = CFG("Boolean")
    /\ counter = 0

NextDeterminize == CallFreeze \/ CallDeterminize

SpecDeterminize == InitDeterminize /\ [][NextDeterminize]_vars

\* C9: on an epsilon-free Boolean automaton (the subset construction
\* terminates) determinize returns a deterministic automaton with the
\* pathsum of the input that gives every string, the empty one included,
\* the weight the input gives it.
C9_Determinize ==
    (out.op = "determinize" /\ fsa.R = "Boolean") =>
        /\ out.res.err = ""
        /\ deterministic(out.res.val, SeqOfKeys(out.res.val.Q)).val
        /\ FSA_pathsum(out.res.val, SeqOfKeys(out.res.val.Q), SeqOfKeys(out.res.val.Q), LEHMANN)
               = FSA_pathsum(fsa, order, order, LEHMANN)
        /\ \A s \in Strings :
               StringWeight(out.res.val, SeqOfKeys(out.res.val.Q), s)
                   = StringWeight(fsa, order, s)

(***************************************************************************)
(* Minimization (fsa.py:184-221).  A block of the partition is a frozenset *)
(* of states.  block_fsa_construction passes the blocks themselves to      *)
(* add_arc and to the charts: add_state wraps a value that is no State in  *)
(* a State (fsa.py:57-60), the keys of delta, lambda and rho stay the      *)
(* frozensets, and State.__eq__ (state.py:36-37) holds between States      *)
(* only, so a member of Q is never equal to one of those keys.             *)
(***************************************************************************)
frozenset(B) == <<"frozenset", B>>
State(x) == <<"State", x[2]>>

\* the partition {states with a final weight, states without}
final_partition(F) ==
    {{q \in F.Q : Rho(F, q) # Zero(F.R)}, {q \in F.Q : Rho(F, q) = Zero(F.R)}}

\* position of the first arc labelled a in A, or 0
first_arc(A, a) ==
    IF \E n \in 1..Len(A) : A[n][1] = a
    THEN CHOOSE n \in 1..Len(A) : A[n][1] = a /\ \A m \in 1..(n - 1) : A[m][1] # a
    ELSE 0

\* fa[p] = q for the first arc p -a-> q
f_a(F, ord, a) ==
    Table([p \in F.Q |-> arcs(F, p, FALSE)[first_arc(arcs(F, p, FALSE), a)][2]])

\* one pass of splitting every block by the pre-image of every block
split(f, P) == {{q \in B : f[q] \in S} : B \in P, S \in P} \ {{}}

\* PartitionRefinement(f, Q).hopcroft(P): the coarsest refinement of P that
\* is stable under f
RECURSIVE hopcroft(_, _)
hopcroft_next(f, P, P1) == IF P1 = P THEN P ELSE hopcroft(f, P1)

hopcroft(f, P) == hopcroft_next(f, P, split(f, P))

\* add_arc with i and j that are no State: Q receives State(i) and State(j)
add_arc_of_blocks(G, i, a, j, w) ==
    [G EXCEPT !.Q = @ \cup {State(i), State(j)},
              !.Sigma = @ \cup {a},
              !.delta = Put(@, <<i, a, j>>, Plus(G.R, Get(G.R, @, <<i, a, j>>), w)),
              !.delta_keys = Inserted(@, <<i, a, j>>),
              !.rows = @ \cup {i}]

RECURSIVE block_arcs(_, _, _, _)
block_arcs(G, mu, A, n) ==
    IF n > Len(A) THEN G
    ELSE block_arcs(add_arc_of_blocks(G, mu[A[n][1]], A[n][2], mu[A[n][3]], A[n][4]),
                    mu, A, n + 1)

\* fsa.lambda[mu[q]] += w for q, w in self.I: the chart alone is written
RECURSIVE block_I(_, _, _, _, _)
block_I(G, F, mu, qs, n) ==
    IF n > Len(qs) THEN G
    ELSE block_I([G EXCEPT !.lam = Put(@, mu[qs[n]],
                                       Plus(G.R, Get(G.R, @, mu[qs[n]]), F.lam[qs[n]])),
                            !.lam_keys = Inserted(@, mu[qs[n]])],
                 F, mu, qs, n + 1)

RECURSIVE block_F(_, _, _, _, _)
block_F(G, F, mu, qs, n) ==
    IF n > Len(qs) THEN G
    ELSE block_F([G EXCEPT !.rho = Put(@, mu[qs[n]],
                                       Plus(G.R, Get(G.R, @, mu[qs[n]]), F.rho[qs[n]])),
                            !.rho_keys = Inserted(@, mu[qs[n]])],
                 F, mu, qs, n + 1)

\* the states in the order "for Q in P: for p in Q"
block_order(ord, Ps) == Flatten([n \in 1..Len(Ps) |-> FilterSeq(ord, Ps[n])])

block_fsa_with(F, ord, mu, ps) ==
    block_F(block_I(block_arcs(spawn(F), mu, arcs_from(F, ps, FALSE), 1),
                    F, mu, I_items(F), 1),
            F, mu, F_items(F), 1)

block_fsa_construction(F, ord, P) ==
    block_fsa_with(F, ord,
                   [q \in UNION P |-> frozenset(CHOOSE B \in P : q \in B)],
                   block_order(ord, SeqOfKeys(P)))

\* the loop over the symbols in the iteration order syms of the set Sigma
RECURSIVE minimize_loop(_, _, _, _, _)
minimize_loop(F, ord, P, syms, n) ==
    IF n > Len(syms) THEN Ok(block_fsa_construction(F, ord, P))
    ELSE IF \E p \in F.Q : first_arc(arcs(F, p, FALSE), syms[n]) = 0
    THEN Raise("NotImplementedError")
    ELSE minimize_loop(F, ord, hopcroft(f_a(F, ord, syms[n]), P), syms, n + 1)

\* "assert self.deterministic" has read every row once it holds; the first
\* partition reads rho at every state
minimize(F, ord, syms) ==
    IF deterministic(F, ord).err # "" THEN deterministic(F, ord)
    ELSE IF ~ deterministic(F, ord).val THEN Raise("AssertionError")
    ELSE IF ~ has_rho(F, F.Q) THEN Raise("KeyError")
    ELSE minimize_loop(F, ord, final_partition(F), syms, 1)

\* the states whose rows "self.deterministic" reads on an automaton that is
\* not frozen: those up to the first state that ends the loop
deterministic_rows(F, ord) ==
    {ord[n] : n \in {m \in 1..Len(ord) :
                       \A k \in 1..(m - 1) : deterministic_at(F, ord[k])}}

(***************************************************************************)
(* SpecMinimize: minimize on the complete deterministic Boolean automata   *)
(* over the letters a and b on the states 0..3, state 0 initial, state 3   *)
(* final with both letters looping on it, state 2 final or not.  Sigma is  *)
(* a set: the loop over the symbols may take them in any order.            *)
(***************************************************************************)
MinStates == {0, 1, 2, 3}
Sink == CHOOSE q \in MinStates : \A r \in MinStates : r <= q

CompleteArcs(T) ==
    {<<k[1], k[2], T[k]>> : k \in DOMAIN T} \cup {<<Sink, a, Sink>> : a \in {"a", "b"}}

CallMinimize ==
    /\ out = NoCall
    /\ \E syms \in Orders(fsa.Sigma) :
           out' = Call("minimize", minimize(fsa, order, syms))
    /\ fsa' = read(fsa, deterministic_rows(fsa, order), <<>>,
                   IF deterministic(fsa, order).val = TRUE THEN order ELSE <<>>)
    /\ UNCHANGED <<fsa2, order, cfg, counter>>

InitMinimize ==
    /\ \E T \in [(MinStates \ {Sink}) \X {"a", "b"} -> MinStates] :
           \E Fs \in {{Sink}, {Sink - 1, Sink}} :
               fsa = MakeFSA("Boolean", [k \in CompleteArcs(T) |-> One("Boolean")],
                             {0}, Fs)
    /\ fsa2 = FSA("Boolean")
    /\ order = Ord(fsa)
    /\ out = NoCall
    /\ cfg = CFG("Boolean")
    /\ counter = 0

NextMinimize == CallFreeze \/ CallMinimize

SpecMinimize == InitMinimize /\ [][NextMinimize]_vars

\* the pairs of states that no string of length up to n distinguishes
RECURSIVE Indistinguishable(_, _, _)
StillIndistinguishable(F, E) ==
    {pq \in E : \A a \in F.Sigma :
                    \E k1, k2 \in DOMAIN F.delta :
                        /\ k1[1] = pq[1] /\ k1[2] = a
                        /\ k2[1] = pq[2] /\ k2[2] = a
                        /\ <<k1[3], k2[3]>> \in E}

Indistinguishable(F, ord, n) ==
    IF n = 0 THEN {pq \in F.Q \X F.Q : Rho(F, pq[1]) = Rho(F, pq[2])}
    ELSE StillIndistinguishable(F, Indistinguishable(F, ord, n - 1))

\* no key of delta has two non-zero arcs with the same symbol
DeterministicArcs(F) ==
    \A k1, k2 \in DOMAIN F.delta :
        (k1[1] = k2[1] /\ k1[2] = k2[2] /\ F.delta[k1] # Zero(F.R)
            /\ F.delta[k2] # Zero(F.R)) => k1 = k2

\* C10: on a deterministic automaton with an arc on every symbol from every
\* state, minimize returns a deterministic automaton with the pathsum of
\* the input, and no block of it holds two states that some string
\* distinguishes.
C10_Minimize ==
    out.op = "minimize" =>
        /\ out.res.err = ""
        /\ DeterministicArcs(out.res.val)
        /\ \A S \in out.res.val.Q : \A p, q \in S[2] :
               <<p, q>> \in Indistinguishable(fsa, order, Cardinality(fsa.Q))
        /\ FSA_pathsum(out.res.val, SeqOfKeys(out.res.val.Q), SeqOfKeys(out.res.val.Q), LEHMANN)
               = FSA_pathsum(fsa, order, order, LEHMANN)

(***************************************************************************)
(* Weight pushing: Transformer.push (transformer.py:34-38) takes the       *)
(* Lehmann backward weights as potentials and has push_with_potential      *)
(* check that the result is pushed.                                        *)
(***************************************************************************)
push_checked(F, ord, W) ==
    IF W.err # "" THEN W ELSE push_with_potential(F, ord, W.val, TRUE)

Transformer_push(F, ord) == push_checked(F, ord, Pathsum_backward(F, ord, ord, LEHMANN))

FSA_push(F, ord) == Transformer_push(F, ord)

(***************************************************************************)
(* SpecPush: push called on a drawn automaton over the semirings whose     *)
(* inverse is a whole number (Tropical, Boolean).                          *)
(***************************************************************************)
CallPush ==
    /\ out = NoCall
    /\ out' = Call("push", FSA_push(fsa, order))
    /\ fsa' = read(fsa, fsa.Q, order, order)
    /\ UNCHANGED <<fsa2, order, cfg, counter>>

CallPushed ==
    /\ out = NoCall
    /\ out' = Call("pushed", pushed(fsa, order))
    /\ fsa' = read(fsa, pushed_reads(fsa, order), <<>>, FilterSeq(order, pushed_reads(fsa, order)))
    /\ UNCHANGED <<fsa2, order, cfg, counter>>

InitPush ==
    /\ Drawn({"Tropical", "Boolean"}, {"a"})
    /\ fsa2 = FSA("Boolean")
    /\ order = Ord(fsa)
    /\ out = NoCall
    /\ cfg = CFG("Boolean")
    /\ counter = 0

NextPush == CallFreeze \/ CallPush \/ CallPushed

SpecPush == InitPush /\ [][NextPush]_vars

\* the states from which some final state is reached
Coaccessible(F) == {p \in F.Q : \E q \in Fin(F) : Reaches(F, p, q)}

\* C11: on an automaton on which the semiring is closed, push returns an
\* automaton in which the arc weights leaving every state of Q and its final
\* weight sum to one, with the pathsum of the input.
C11_Pushed ==
    (out.op = "push" /\ Closed(fsa)) =>
        /\ out.res.err = ""
        /\ pushed(out.res.val, order).val
        /\ out.res.val.Q = fsa.Q
        /\ lehmann_pathsum(out.res.val, order) = lehmann_pathsum(thawed(fsa), order)

\* the same statement for the automata all of whose states reach a final
\* state and that, if frozen, have a row in delta and an entry in lam and
\* rho for every state
C11_PushedWhereCoaccessible ==
    (out.op = "push" /\ Closed(fsa) /\ Coaccessible(fsa) = fsa.Q
        /\ has_rows(fsa, fsa.Q) /\ has_lam(fsa, fsa.Q) /\ has_rho(fsa, fsa.Q)) =>
        /\ out.res.err = ""
        /\ pushed(out.res.val, order).val
        /\ out.res.val.Q = fsa.Q
        /\ lehmann_pathsum(out.res.val, order) = lehmann_pathsum(thawed(fsa), order)

(***************************************************************************)
(* Weighted context-free grammars (rayuela.cfg).  A nonterminal is a       *)
(* member of NT, every other symbol of a body is a terminal Sym (the empty *)
(* string Eps is one).  A production is a record of its head, its body and *)
(* its weight; cfg.P enumerates the productions in insertion order.        *)
(***************************************************************************)
NT == {"S", "A", "B", "@1", "@2", "@3"}

find(P, head, body) == {n \in 1..Len(P) : P[n].head = head /\ P[n].body = body}

\* CFG.add(w, head, *body): the weight of a production accumulates
cfg_add(G, w, head, body) ==
    LET at == find(G.P, head, body)
        P1 == IF at = {} THEN Append(G.P, [head |-> head, body |-> body, w |-> w])
              ELSE [n \in 1..Len(G.P) |->
                       IF n \in at THEN [head |-> head, body |-> body,
                                         w |-> Plus(G.R, G.P[n].w, w)]
                       ELSE G.P[n]]
    IN [G EXCEPT !.V = @ \cup {head} \cup {x \in Range(body) : x \in NT},
                 !.Sigma = @ \cup {x \in Range(body) : x \notin NT},
                 !.P = P1]

cfg_spawn(G) == [CFG(G.R) EXCEPT !.S = G.S]

unary(p) == Len(p.body) = 1 /\ p.body[1] \in NT

\* the unary FSA: a state per nonterminal, an arc Y -> X for every X -> Y,
\* every state initial and final with weight one
RECURSIVE unary_arcs(_, _, _)
unary_arcs(F, P, n) ==
    IF n > Len(P) THEN F
    ELSE unary_arcs(IF unary(P[n])
                    THEN add_arc(F, P[n].body[1], Eps, P[n].head, P[n].w)
                    ELSE F, P, n + 1)

make_unary_fsa(G) ==
    LET F == unary_arcs([FSA(G.R) EXCEPT !.Q = G.V], G.P, 1)
    IN set_F_all(set_I_all(F, SeqOfKeys(F.Q), 1), SeqOfKeys(F.Q), 1)

(***************************************************************************)
(* Treesum (rayuela.cfg.treesum): the table T(X) as the fixed point of     *)
(* T(X) = sum over X -> alpha, w of w * prod T(alpha_i), T of a terminal   *)
(* and of the empty string being one, computed by TreesumRounds rounds     *)
(* from the zero table.  A Real weight beyond Inf is a diverging one.      *)
(***************************************************************************)
TreesumRounds == 4

table_get(R, T, x) == IF x \in NT THEN Get(R, T, x) ELSE One(R)

RECURSIVE body_weight(_, _, _, _)
body_weight(R, T, body, n) ==
    IF n > Len(body) THEN One(R)
    ELSE Times(R, table_get(R, T, body[n]), body_weight(R, T, body, n + 1))

RECURSIVE head_sum(_, _, _, _, _)
head_sum(R, T, P, X, n) ==
    IF n > Len(P) THEN Zero(R)
    ELSE IF P[n].head # X THEN head_sum(R, T, P, X, n + 1)
    ELSE Plus(R, Times(R, P[n].w, body_weight(R, T, P[n].body, 1)),
              head_sum(R, T, P, X, n + 1))

diverging(R, v) == IF R = "Real" /\ v > Inf THEN Bot ELSE v

treesum_step(G, T) ==
    Table([X \in G.V |-> diverging(G.R, head_sum(G.R, T, G.P, X, 1))])

RECURSIVE treesum_rounds(_, _, _)
treesum_rounds(G, T, k) ==
    IF k = 0 THEN T
    ELSE IF \A X \in DOMAIN T : T[X] = T[X] THEN treesum_rounds(G, treesum_step(G, T), k - 1)
    ELSE T

Treesum_table(G) == treesum_rounds(G, Table([X \in G.V |-> Zero(G.R)]), TreesumRounds)

\* the table is defined: the rounds have reached the fixed point
Converges(G) ==
    /\ Defined(Treesum_table(G))
    /\ treesum_step(G, Treesum_table(G)) = Treesum_table(G)

treesum(G) == Treesum_table(G)[G.S]

(***************************************************************************)
(* Transformer.unaryremove (cfg/transformer.py:115-141).                   *)
(***************************************************************************)
\* itertools.product of k copies of V: the k-tuples over Vs, the leftmost
\* varying slowest
RECURSIVE product(_, _)
product(Vs, k) ==
    IF k = 0 THEN << <<>> >>
    ELSE LET T == product(Vs, k - 1)
         IN Flatten([i \in 1..Len(Vs) |-> [j \in 1..Len(T) |-> <<Vs[i]>> \o T[j]]])

\* math.prod([W[Y, X] for Y, X in zip(Ys, Xs)], start=one)
RECURSIVE prod(_, _, _, _, _)
prod(R, W, Ys, Xs, n) ==
    IF n > Len(Ys) THEN One(R)
    ELSE Times(R, W[<<Ys[n], Xs[n]>>], prod(R, W, Ys, Xs, n + 1))

\* body with the nonterminal occurrences replaced by Ys, left to right
RECURSIVE body_new(_, _)
body_new(body, Ys) ==
    IF body = <<>> THEN <<>>
    ELSE IF Head(body) \in NT THEN <<Head(Ys)>> \o body_new(Tail(body), Tail(Ys))
    ELSE <<Head(body)>> \o body_new(Tail(body), Ys)

RECURSIVE unaryremove_rewrites(_, _, _, _, _, _)
unaryremove_rewrites(G, W, N, p, Yss, n) ==
    IF n > Len(Yss) THEN N
    ELSE LET Xs == SelectSeq(p.body, LAMBDA X : X \in NT)
             w_new == Times(G.R, p.w, prod(G.R, W, Yss[n], Xs, 1))
         IN unaryremove_rewrites(G, W,
                IF w_new # Zero(G.R) THEN cfg_add(N, w_new, p.head, body_new(p.body, Yss[n]))
                ELSE N,
                p, Yss, n + 1)

\* Vs: the order in which the set cfg.V is iterated
RECURSIVE unaryremove_loop(_, _, _, _, _)
unaryremove_loop(G, Vs, W, N, n) ==
    IF n > Len(G.P) THEN N
    ELSE LET p == G.P[n]
             k == Len(SelectSeq(p.body, LAMBDA X : X \in NT))
             N1 == IF Len(p.body) > 1
                   THEN unaryremove_rewrites(G, W, N, p, product(Vs, k), 1)
                   ELSE IF p.body[1] \notin NT THEN cfg_add(N, p.w, p.head, p.body)
                   ELSE N
         IN unaryremove_loop(G, Vs, W, N1, n + 1)

unaryremove_with(G, Vs, U) ==
    Ok(unaryremove_loop(G, Vs, lehmann(U, SeqOfKeys(U.Q), TRUE), cfg_spawn(G), 1))

unaryremove(G, Vs) == unaryremove_with(G, Vs, make_unary_fsa(G))

(***************************************************************************)
(* Transformer.nullaryremove (cfg/transformer.py:143-167).                 *)
(***************************************************************************)
\* the grammar of the binary productions and the productions X -> eps
RECURSIVE nullary_grammar(_, _, _)
nullary_grammar(G, N, n) ==
    IF n > Len(G.P) THEN Ok(N)
    ELSE LET p == G.P[n]
         IN IF Len(p.body) \notin {1, 2} THEN Raise("AssertionError")
            ELSE nullary_grammar(G,
                     IF Len(p.body) = 2 \/ p.body[1] = Eps
                     THEN cfg_add(N, p.w, p.head, p.body) ELSE N,
                     n + 1)

RECURSIVE nullaryremove_loop(_, _, _, _)
nullaryremove_loop(G, ts_null, N, n) ==
    IF n > Len(G.P) THEN N
    ELSE LET p == G.P[n]
             R == G.R
             X == p.head
             N1 == IF Len(p.body) = 2
                   THEN LET Y == p.body[1]
                            Z == p.body[2]
                            M1 == cfg_add(N, Times(R, p.w, table_get(R, ts_null, Z)), X, <<Y>>)
                            M2 == cfg_add(M1, Times(R, p.w, table_get(R, ts_null, Y)), X, <<Z>>)
                        IN cfg_add(M2, p.w, X, <<Y, Z>>)
                   ELSE IF p.body[1] # Eps THEN cfg_add(N, p.w, X, p.body)
                   ELSE N
         IN nullaryremove_loop(G, ts_null, N1, n + 1)

nullaryremove_with(G, cfg_null) ==
    IF cfg_null.err # "" THEN cfg_null
    ELSE LET ts_null == Treesum_table(cfg_null.val)
             N == nullaryremove_loop(G, ts_null, cfg_spawn(G), 1)
         IN Ok(cfg_add(N, ts_null["S"], "S", <<Eps>>))

nullaryremove(G) == nullaryremove_with(G, nullary_grammar(G, cfg_spawn(G), 1))

(***************************************************************************)
(* Transformer.fold (cfg/transformer.py:47-97).  A production p is the     *)
(* pair of a head and a body; the intervals are pairs of 0-based inclusive *)
(* indices into the body.                                                  *)
(***************************************************************************)
\* _gen_nt: the nonterminal "@n" for the incremented counter n
gen_nt(n) == <<"@1", "@2", "@3">>[n]

\* the body of the new head production: the intervals replaced by their heads
RECURSIVE fold_body(_, _, _, _, _)
fold_body(body, ivs, heads, start, k) ==
    IF k > Len(ivs) THEN SubSeq(body, start + 1, Len(body))
    ELSE SubSeq(body, start + 1, ivs[k][1]) \o <<heads[k]>>
             \o fold_body(body, ivs, heads, ivs[k][2] + 1, k + 1)

\* _fold: the new productions, the one of the head last
fold_productions(G, cnt, p, w, ivs) ==
    IF \E k \in 1..Len(ivs) : ~ (ivs[k][1] >= 0 /\ ivs[k][2] >= ivs[k][1] /\ ivs[k][2] < Len(p.body))
    THEN Raise("AssertionError")
    ELSE LET heads == [k \in 1..Len(ivs) |-> gen_nt(cnt + k)]
         IN Ok([k \in 1..Len(ivs) |->
                   [head |-> heads[k], w |-> One(G.R),
                    body |-> SubSeq(p.body, ivs[k][1] + 1, ivs[k][2] + 1)]]
               \o <<[head |-> p.head, w |-> w, body |-> fold_body(p.body, ivs, heads, 0, 1)]>>)

\* "for (q, w) in cfg.P: if p != q: add(w, q.head, *q.body)"
RECURSIVE fold_others(_, _, _, _)
fold_others(G, N, p, n) ==
    IF n > Len(G.P) THEN N
    ELSE fold_others(G,
             IF G.P[n].head # p.head \/ G.P[n].body # p.body
             THEN cfg_add(N, G.P[n].w, G.P[n].head, G.P[n].body) ELSE N,
             p, n + 1)

\* the loop over cfg.P binds the name w anew: what _fold receives is the
\* weight of the production enumerated last, if the grammar has one
fold_w(G, w) == IF Len(G.P) = 0 THEN w ELSE G.P[Len(G.P)].w

\* "for (head, body), w in P: add(w, head, *body)"
RECURSIVE add_all(_, _, _)
add_all(G, ps, n) ==
    IF n > Len(ps) THEN G
    ELSE add_all(cfg_add(G, ps[n].w, ps[n].head, ps[n].body), ps, n + 1)

fold_with(G, cnt, N, P, ivs) ==
    IF P.err # "" THEN P
    ELSE LET M == add_all(N, P.val, 1)
         IN Ok([cfg |-> [M EXCEPT !.unary_fsa = make_unary_fsa(M)],
                counter |-> cnt + Len(ivs)])

fold(G, cnt, p, w, ivs) ==
    fold_with(G, cnt, fold_others(G, cfg_spawn(G), p, 1),
              fold_productions(G, cnt, p, fold_w(G, w), ivs), ivs)

(***************************************************************************)
(* SpecGrammar: the transformations of the Transformer called on a drawn   *)
(* grammar: at most MaxProds productions over the nonterminals S, A, B and *)
(* the terminal a, with an empty, a terminal, a unary or a binary body,    *)
(* inserted by CFG.add in any order.                                       *)
(***************************************************************************)
MaxProds == 2

Heads == {"S", "A", "B"}

Bodies == {<<Eps>>, <<"a">>} \cup {<<X>> : X \in Heads} \cup {<<X, Y>> : X, Y \in Heads}

ProdWeights(R) ==
    CASE R = "Tropical" -> {1}
      [] R = "Real" -> {2}
      [] R = "Boolean" -> {1}

DrawnGrammars(R) ==
    {add_all(CFG(R), ps, 1) :
        ps \in {s \in UNION {[1..k -> [head : Heads, body : Bodies, w : ProdWeights(R)]] :
                                k \in 0..MaxProds} :
                    \A m, n \in DOMAIN s :
                        (m # n) => (s[m].head # s[n].head \/ s[m].body # s[n].body)}}

\* unaryremove leaves in its argument the unary FSA that make_unary_fsa has
\* built and of which Pathsum(cfg.unary_fsa) has read the row of every state
CallUnaryRemove ==
    /\ out = NoCall
    /\ \E Vs \in Orders(cfg.V) : out' = Call("unaryremove", unaryremove(cfg, Vs))
    /\ cfg' = [cfg EXCEPT !.unary_fsa = Lifted(make_unary_fsa(cfg))]
    /\ UNCHANGED <<fsa, fsa2, order, counter>>

CallNullaryRemove ==
    /\ out = NoCall
    /\ out' = Call("nullaryremove", nullaryremove(cfg))
    /\ UNCHANGED <<fsa, fsa2, order, cfg, counter>>

\* the sorted disjoint interval lists over a body of length n, and one
\* interval that reaches beyond the body
Intervals(n) ==
    LET Iv == {ij \in (0..(n - 1)) \X (0..(n - 1)) : ij[1] <= ij[2]}
    IN {<<>>, <<<<0, n>>>>} \cup {<<ij>> : ij \in Iv}
          \cup UNION {{<<a, b>> : b \in {c \in Iv : a[2] < c[1]}} : a \in Iv}

FoldWeights(R) == {One(R)} \cup ProdWeights(R)

CallFold ==
    /\ out = NoCall
    /\ \E n \in 1..Len(cfg.P) : \E w \in FoldWeights(cfg.R) :
           \E ivs \in Intervals(Len(cfg.P[n].body)) :
               LET p == [head |-> cfg.P[n].head, body |-> cfg.P[n].body]
                   res == fold(cfg, counter, p, w, ivs)
               IN /\ out' = [op |-> "fold", res |-> res, p |-> p, w |-> w, ivs |-> ivs]
                  /\ counter' = IF res.err = "" THEN res.val.counter ELSE counter
    /\ UNCHANGED <<fsa, fsa2, order, cfg>>

InitGrammar ==
    /\ \E R \in Semirings : cfg \in DrawnGrammars(R)
    /\ counter \in {0, 1}
    /\ fsa = FSA("Boolean")
    /\ fsa2 = FSA("Boolean")
    /\ order = <<>>
    /\ out = NoCall

NextGrammar == CallUnaryRemove \/ CallNullaryRemove \/ CallFold

SpecGrammar == InitGrammar /\ [][NextGrammar]_vars

\* the closure of the unary FSA of the grammar is defined
UnaryClosed(G) == Defined(lehmann(make_unary_fsa(G), SeqOfKeys(G.V), TRUE))

\* C12: on a grammar whose Treesum and unary closure are defined,
\* unaryremove returns a grammar without a unary production X -> Y whose
\* Treesum at the start symbol is the Treesum of the input.
C12_UnaryRemove ==
    (out.op = "unaryremove" /\ Converges(cfg) /\ UnaryClosed(cfg)) =>
        /\ out.res.err = ""
        /\ \A n \in 1..Len(out.res.val.P) : ~ unary(out.res.val.P[n])
        /\ Converges(out.res.val)
        /\ treesum(out.res.val) = treesum(cfg)

\* the same statement for the grammars whose start symbol has no unary production
C12_UnaryRemoveBelowStart ==
    (out.op = "unaryremove" /\ Converges(cfg) /\ UnaryClosed(cfg)
        /\ \A n \in 1..Len(cfg.P) : unary(cfg.P[n]) => cfg.P[n].head # cfg.S) =>
        /\ out.res.err = ""
        /\ \A n \in 1..Len(out.res.val.P) : ~ unary(out.res.val.P[n])
        /\ Converges(out.res.val)
        /\ treesum(out.res.val) = treesum(cfg)

\* the Treesum of the nullary sub-grammar is defined
NullaryConverges(G) ==
    /\ nullary_grammar(G, cfg_spawn(G), 1).err = ""
    /\ Converges(nullary_grammar(G, cfg_spawn(G), 1).val)

\* C13: on a grammar of bodies of length 1 or 2 whose Treesum is defined,
\* nullaryremove returns a grammar whose only production X -> eps is S -> eps
\* and whose Treesum at the start symbol is the Treesum of the input.
C13_NullaryRemove ==
    (out.op = "nullaryremove" /\ Converges(cfg) /\ NullaryConverges(cfg)) =>
        /\ out.res.err = ""
        /\ \A n \in 1..Len(out.res.val.P) :
               out.res.val.P[n].body = <<Eps>> => out.res.val.P[n].head = "S"
        /\ Converges(out.res.val)
        /\ treesum(out.res.val) = treesum(cfg)

\* the same statement for the grammars without a unary production
C13_NullaryRemoveWithoutUnary ==
    (out.op = "nullaryremove" /\ Converges(cfg) /\ NullaryConverges(cfg)
        /\ \A n \in 1..Len(cfg.P) : ~ unary(cfg.P[n])) =>
        /\ out.res.err = ""
        /\ \A n \in 1..Len(out.res.val.P) :
               out.res.val.P[n].body = <<Eps>> => out.res.val.P[n].head = "S"
        /\ Converges(out.res.val)
        /\ treesum(out.res.val) = treesum(cfg)

\* the weight of the production head -> body in the grammar, Bot if there is none
weight_of(G, head, body) ==
    IF find(G.P, head, body) = {} THEN Bot
    ELSE G.P[CHOOSE n \in find(G.P, head, body) : TRUE].w

\* the body with every head of an interval replaced by the body that the
\* grammar N gives it
RECURSIVE unfolded(_, _, _)
unfolded(N, body, heads) ==
    IF body = <<>> THEN <<>>
    ELSE IF Head(body) \in heads
         THEN N.P[CHOOSE n \in 1..Len(N.P) : N.P[n].head = Head(body)].body
                  \o unfolded(N, Tail(body), heads)
         ELSE <<Head(body)>> \o unfolded(N, Tail(body), heads)

\* the productions of N with the head of p that p unfolds from, with weight w
FoldedAs(N, p, heads, w) ==
    \E n \in 1..Len(N.P) :
        /\ N.P[n].head = p.head
        /\ N.P[n].w = w
        /\ Len(N.P[n].body) = Len(p.body) - Len(unfolded(N, N.P[n].body, heads))
                                  + Len(N.P[n].body)
        /\ unfolded(N, N.P[n].body, heads) = p.body
        /\ Cardinality({m \in 1..Len(N.P[n].body) : N.P[n].body[m] \in heads})
               = Cardinality(heads)

FoldHeads(c, ivs) == {gen_nt(c + k) : k \in 1..Len(ivs)}

ValidIntervals(p, ivs) == \A k \in 1..Len(ivs) : ivs[k][2] < Len(p.body)

\* C14: fold(cfg, p, w, I) on a production p of cfg and sorted disjoint
\* intervals ivs keeps the weight of every other production, gives every
\* interval a fresh head with the production head -> body[i..j] of weight
\* one, and replaces p by a production of its head over those heads whose
\* weight is the argument w.
C14_Fold ==
    (out.op = "fold" /\ ValidIntervals(out.p, out.ivs)) =>
        /\ out.res.err = ""
        /\ \A n \in 1..Len(cfg.P) :
               (cfg.P[n].head # out.p.head \/ cfg.P[n].body # out.p.body) =>
                   weight_of(out.res.val.cfg, cfg.P[n].head, cfg.P[n].body) = cfg.P[n].w
        /\ \A k \in 1..Len(out.ivs) :
               weight_of(out.res.val.cfg, gen_nt(counter - Len(out.ivs) + k),
                         SubSeq(out.p.body, out.ivs[k][1] + 1, out.ivs[k][2] + 1))
                   = One(cfg.R)
        /\ FoldedAs(out.res.val.cfg, out.p, FoldHeads(counter - Len(out.ivs), out.ivs), out.w)

\* the same statement with the weight of the production that cfg.P
\* enumerates last in the place of the argument w
C14_FoldWithLastWeight ==
    (out.op = "fold" /\ ValidIntervals(out.p, out.ivs)) =>
        /\ out.res.err = ""
        /\ \A n \in 1..Len(cfg.P) :
               (cfg.P[n].head # out.p.head \/ cfg.P[n].body # out.p.body) =>
                   weight_of(out.res.val.cfg, cfg.P[n].head, cfg.P[n].body) = cfg.P[n].w
        /\ \A k \in 1..Len(out.ivs) :
               weight_of(out.res.val.cfg, gen_nt(counter - Len(out.ivs) + k),
                         SubSeq(out.p.body, out.ivs[k][1] + 1, out.ivs[k][2] + 1))
                   = One(cfg.R)
        /\ FoldedAs(out.res.val.cfg, out.p, FoldHeads(counter - Len(out.ivs), out.ivs),
                    cfg.P[Len(cfg.P)].w)

(***************************************************************************)
(* accessible, coaccessible and trim (fsa.py:315-351) and edge_marginals   *)
(* (fsa.py:435-447).                                                       *)
(***************************************************************************)
\* the breadth-first search from the initial states
RECURSIVE accessible_loop(_, _, _, _)
accessible_loop(F, ord, queue, visited) ==
    IF queue = <<>> THEN visited
    ELSE IF Head(queue) \in visited THEN accessible_loop(F, ord, Tail(queue), visited)
    ELSE LET A == arcs(F, Head(queue), FALSE)
             v1 == visited \cup {Head(queue)}
             js == SelectSeq([n \in 1..Len(A) |-> A[n][2]], LAMBDA j : j \notin v1)
         IN accessible_loop(F, ord, Tail(queue) \o js, v1)

\* the states the search visits in the stored arcs
accessible_from_I(F, ord) == accessible_loop(thawed(F), ord, I_items(F), {})

\* self.arcs(i) reads the row of every visited state: on a frozen automaton
\* a visited state without a row is a missing key
accessible(F, ord) ==
    IF ~ has_rows(F, accessible_from_I(F, ord)) THEN Raise("KeyError")
    ELSE accessible_from_I(F, ord)

\* self.reverse() reads the row of every state
coaccessible(F, ord) ==
    IF ~ has_rows(F, F.Q) THEN Raise("KeyError")
    ELSE accessible(reverse(F, ord), ord)

RECURSIVE trim_arcs(_, _, _, _)
trim_arcs(G, remaining_states, A, n) ==
    IF n > Len(A) THEN G
    ELSE trim_arcs(IF A[n][3] \in remaining_states
                   THEN add_arc(G, A[n][1], A[n][2], A[n][3], A[n][4]) ELSE G,
                   remaining_states, A, n + 1)

RECURSIVE set_I_from(_, _, _, _)
set_I_from(G, chart, qs, n) ==
    IF n > Len(qs) THEN G ELSE set_I_from(set_I(G, qs[n], chart[qs[n]]), chart, qs, n + 1)

RECURSIVE set_F_from(_, _, _, _)
set_F_from(G, chart, qs, n) ==
    IF n > Len(qs) THEN G ELSE set_F_from(set_F(G, qs[n], chart[qs[n]]), chart, qs, n + 1)

trim_to(F, ord, remaining_states) ==
    LET G1 == trim_arcs(FSA(F.R), remaining_states,
                        arcs_from(F, FilterSeq(ord, remaining_states), FALSE), 1)
        G2 == set_I_from(G1, F.lam, FilterSeq(I_items(F), remaining_states), 1)
    IN set_F_from(G2, F.rho, FilterSeq(F_items(F), remaining_states), 1)

\* accessible() and then coaccessible(), which reverses the automaton, come
\* first: a frozen automaton with a state without a row is a missing key
trim(F, ord) ==
    IF ~ has_rows(F, F.Q) THEN Raise("KeyError")
    ELSE trim_to(F, ord, accessible(F, ord) \cap coaccessible(F, ord))

\* res[p][a][q] = alpha[p] * w * beta[q] for every arc, keyed by <<p, a, q>>
marginals(F, alpha, beta, A) ==
    Table([k \in {<<A[n][1], A[n][2], A[n][3]>> : n \in 1..Len(A)} |->
        Times(F.R, Times(F.R, Get(F.R, alpha, k[1]), Delta(F, k[1], k[2], k[3])),
              Get(F.R, beta, k[3]))])

\* "assert self.acyclic" searches from the initial states, then Pathsum(self)
\* reads the row of every state
edge_marginals(F, ord) ==
    IF ~ has_rows(F, dfs_visited(F)) THEN Raise("KeyError")
    ELSE IF ~ acyclic(F) THEN Raise("AssertionError")
    ELSE IF Pathsum(F).err # "" THEN Pathsum(F)
    ELSE Ok(marginals(F, viterbi_fwd(F, ord).val, viterbi_bwd(F, ord).val, all_arcs(F, ord)))

(***************************************************************************)
(* The views of an automaton: __str__ (fsa.py:593-604), tikz               *)
(* (fsa.py:511-579) and _repr_html_ (fsa.py:606 ff.).  The text they       *)
(* return is held as the sequence of its pieces, a piece being the tuple   *)
(* of the values formatted into it.  Each of them iterates the arcs of     *)
(* every state of Q, which reads the row of the state.                     *)
(***************************************************************************)
\* the targets of the arcs A = <<a, j, w>>, ..., in the order of their
\* first arc, and the labels <<a, w>> of the arcs to the target t
targets_of(A) == Distinct([n \in 1..Len(A) |-> A[n][2]])
labels_to(A, t) ==
    LET to_t == SelectSeq(A, LAMBDA e : e[2] = t)
    IN [n \in 1..Len(to_t) |-> <<to_t[n][1], to_t[n][3]>>]

\* __str__: a line per initial state, per final state and per arc
FSA_str(F, ord) ==
    IF ~ has_rows(F, F.Q) THEN Raise("KeyError")
    ELSE LET A == all_arcs(F, ord)
             Is == I_items(F)
             Fs == F_items(F)
         IN Ok([n \in 1..Len(Is) |-> <<"initial state", Is[n], F.lam[Is[n]]>>]
               \o [n \in 1..Len(Fs) |-> <<"final state", Fs[n], F.rho[Fs[n]]>>]
               \o [n \in 1..Len(A) |-> <<"arc", A[n][1], A[n][2], A[n][4], A[n][3]>>])

\* tikz(max_per_row=4)
max_per_row == 4

\* the node of the state ord[n]: its options, the node it is placed next
\* to, and its label, the state with its final or else its initial weight
tikz_node(F, ord, n) ==
    LET q == ord[n]
        jj == n - 1
    IN [node |-> q,
        options |-> <<"state">>
                    \o (IF q \in I(F) THEN <<"initial">> ELSE <<>>)
                    \o (IF q \in Fin(F) THEN <<"accepting">> ELSE <<>>),
        positioning |-> IF jj >= max_per_row THEN <<"below = of", ord[n - max_per_row]>>
                        ELSE IF jj > 0 THEN <<"right = of", ord[n - 1]>>
                        ELSE <<>>,
        label |-> <<q>> \o (IF q \in Fin(F) THEN <<F.rho[q]>>
                            ELSE IF q \in I(F) THEN <<F.lam[q]>>
                            ELSE <<>>)]

\* the options of the edge from q to target
edge_options(ord, st, q, target) ==
    LET same_row == (Pos(ord, q) - 1) \div max_per_row
                        = (Pos(ord, target) - 1) \div max_per_row
    IN IF q = target THEN "align=left, loop above"
       ELSE IF {q, target} \notin st.seen_pairs THEN "align=lefta, bove"
       ELSE IF {q, target} \notin st.drawn_pairs
            THEN IF same_row THEN "align=left, bend left, above"
                 ELSE "align=left, bend left, right"
       ELSE IF same_row THEN "align=left, bend left, below"
            ELSE "align=left, bend left, right"

\* the edges of the state ord[n], one per target; drawn_pairs receives the
\* pair of the state and the target j of its last arc
RECURSIVE tikz_targets(_, _, _, _, _, _)
tikz_targets(F, ord, st, n, A, ii) ==
    LET ts == targets_of(A)
        q == ord[n]
    IN IF ii > Len(ts) THEN st
       ELSE LET edge == [edge |-> q,
                         options |-> edge_options(ord, st, q, ts[ii]),
                         label |-> labels_to(A, ts[ii]),
                         to |-> ts[ii],
                         end |-> IF n = Len(ord) /\ ii = Len(ts) THEN "; \n" ELSE "\n"]
            IN tikz_targets(F, ord,
                            [st EXCEPT !.text = Append(@, edge),
                                       !.drawn_pairs = @ \cup {{q, A[Len(A)][2]}}],
                            n, A, ii + 1)

RECURSIVE tikz_edges(_, _, _, _)
tikz_edges(F, ord, st, n) ==
    IF n > Len(ord) THEN st
    ELSE LET A == arcs(F, ord[n], FALSE)
             seen == [st EXCEPT !.seen_pairs =
                                    @ \cup {{ord[n], A[m][2]} : m \in 1..Len(A)}]
         IN tikz_edges(F, ord, tikz_targets(F, ord, seen, n, A, 1), n + 1)

\* "list(self.Q)[-1]" of an automaton without states is an IndexError
tikz(F, ord) ==
    IF ~ has_rows(F, F.Q) THEN Raise("KeyError")
    ELSE IF ord = <<>> THEN Raise("IndexError")
    ELSE LET nodes == [n \in 1..Len(ord) |-> tikz_node(F, ord, n)]
             st == tikz_edges(F, ord,
                              [text |-> nodes \o <<"\\draw">>,
                               seen_pairs |-> {}, drawn_pairs |-> {}], 1)
         IN Ok(IF arcs(F, ord[Len(ord)], FALSE) = <<>> THEN Append(st.text, ";")
               ELSE st.text)

\* _repr_html_: the statements that set the nodes and the edges of the graph
repr_initial(F, q) ==
    IF q \in Fin(F)
    THEN << <<"setNode", q, <<q, F.lam[q], F.rho[q]>> >>, <<"style", q, "af8dc3">> >>
    ELSE << <<"setNode", q, <<q, F.lam[q]>> >>, <<"style", q, "66c2a5">> >>

repr_normal(F, q) == << <<"setNode", q, <<q>> >>, <<"style", q, "8da0cb">> >>

repr_final(F, q) ==
    IF q \in I(F) \/ F.rho[q] = Zero(F.R) THEN <<>>
    ELSE << <<"setNode", q, <<q, F.rho[q]>> >>, <<"style", q, "fc8d62">> >>

\* more than four labels to one target are cut to three and an ellipsis
repr_values(values) ==
    IF Len(values) > 4 THEN SubSeq(values, 1, 3) \o <<". . .">> ELSE values

repr_edges(F, q) ==
    LET A == arcs(F, q, FALSE)
        ts == targets_of(A)
    IN [n \in 1..Len(ts) |-> <<"setEdge", q, ts[n], repr_values(labels_to(A, ts[n]))>>]

\* the identifiers uuid4() may give the drawing
Uuids == {"fst_0", "fst_1"}

repr_html(F, ord, obj) ==
    IF num_states(F) = 0 THEN Ok("<code>Empty FST</code>")
    ELSE IF num_states(F) > 64 THEN Ok(<<"FST too large to draw graphic", num_states(F)>>)
    ELSE IF ~ has_rows(F, F.Q) THEN Raise("KeyError")
    ELSE LET Is == I_items(F)
             Fs == F_items(F)
             Ns == FilterSeq(ord, (F.Q \ Fin(F)) \ I(F))
             ret == Flatten([n \in 1..Len(Is) |-> repr_initial(F, Is[n])])
                    \o Flatten([n \in 1..Len(Ns) |-> repr_normal(F, Ns[n])])
                    \o Flatten([n \in 1..Len(Fs) |-> repr_final(F, Fs[n])])
                    \o Flatten([n \in 1..Len(ord) |-> repr_edges(F, ord[n])])
         IN IF Len(ret) > 256
            THEN Ok(<<"FST too large to draw graphic", num_states(F)>>)
            ELSE Ok([svg |-> obj, script |-> ret])

(***************************************************************************)
(* SpecConstruct: reverse, trim and edge_marginals called on a drawn       *)
(* automaton.                                                              *)
(***************************************************************************)
\* the second reverse is called on what the first has returned
reverse_reverse(F, ord) ==
    IF Raised(reverse(F, ord)) THEN reverse(F, ord)
    ELSE reverse(reverse(F, ord), FilterSeq(ord, reverse(F, ord).Q))

CallReverseReverse ==
    /\ out = NoCall
    /\ out' = Call("reverse.reverse", reverse_reverse(fsa, order))
    /\ fsa' = read(fsa, fsa.Q, <<>>, <<>>)
    /\ UNCHANGED <<fsa2, order, cfg, counter>>

CallTrim ==
    /\ out = NoCall
    /\ out' = Call("trim", trim(fsa, order))
    /\ fsa' = read(fsa, fsa.Q, <<>>, <<>>)
    /\ UNCHANGED <<fsa2, order, cfg, counter>>

\* on a cyclic automaton the assertion fails after the search from the
\* initial states has read the rows of the states it visits
CallEdgeMarginals ==
    /\ out = NoCall
    /\ out' = Call("edge_marginals", edge_marginals(fsa, order))
    /\ fsa' = read(fsa, IF dfs_from_I(thawed(fsa)).cyclic THEN dfs_visited(fsa) ELSE fsa.Q,
                   <<>>, <<>>)
    /\ UNCHANGED <<fsa2, order, cfg, counter>>

\* str(fsa), fsa.tikz() and fsa._repr_html_() read the row of every state
CallStr ==
    /\ out = NoCall
    /\ out' = Call("__str__", FSA_str(fsa, order))
    /\ fsa' = read(fsa, fsa.Q, <<>>, <<>>)
    /\ UNCHANGED <<fsa2, order, cfg, counter>>

CallTikz ==
    /\ out = NoCall
    /\ out' = Call("tikz", tikz(fsa, order))
    /\ fsa' = read(fsa, fsa.Q, <<>>, <<>>)
    /\ UNCHANGED <<fsa2, order, cfg, counter>>

CallReprHtml ==
    /\ out = NoCall
    /\ \E obj \in Uuids : out' = Call("_repr_html_", repr_html(fsa, order, obj))
    /\ fsa' = read(fsa, fsa.Q, <<>>, <<>>)
    /\ UNCHANGED <<fsa2, order, cfg, counter>>

InitConstruct ==
    /\ DrawnAscending({"Tropical", "Real", "Boolean"}, {"a"})
    /\ fsa2 = FSA("Boolean")
    /\ order = Ord(fsa)
    /\ cfg = CFG("Boolean")
    /\ counter = 0
    /\ out = NoCall

NextConstruct ==
    \/ CallFreeze \/ CallReverseReverse \/ CallTrim \/ CallEdgeMarginals
    \/ CallStr \/ CallTikz \/ CallReprHtml

SpecConstruct == InitConstruct /\ [][NextConstruct]_vars

\* the non-zero arcs with their weights, and the non-zero entries of a chart
NonZeroArcs(F) == {<<k, F.delta[k]>> : k \in {j \in DOMAIN F.delta : F.delta[j] # Zero(F.R)}}
NonZero(R, chart) == {<<q, chart[q]>> : q \in {p \in DOMAIN chart : chart[p] # Zero(R)}}

\* the statement of C15 for the automaton G returned by reverse(reverse(F))
SameContents(G, F) ==
    /\ NonZeroArcs(G) = NonZeroArcs(F)
    /\ NonZero(F.R, G.lam) = NonZero(F.R, F.lam)
    /\ NonZero(F.R, G.rho) = NonZero(F.R, F.rho)
    /\ Closed(F) =>
           lehmann_pathsum(G, FilterSeq(Ord(F), G.Q)) = lehmann_pathsum(thawed(F), Ord(F))

\* C15: reverse(reverse(F)) has the non-zero arcs of F with their weights,
\* the non-zero initial and final weights of F, and, where the semiring is
\* closed on F, the pathsum of F.
C15_ReverseInvolution ==
    out.op = "reverse.reverse" =>
        /\ ~ Raised(out.res)
        /\ SameContents(out.res, fsa)

\* the same statement for the calls that return: reverse raises KeyError on
\* a frozen automaton with a state that has no row in delta
C15_ReverseWhereReturned ==
    (out.op = "reverse.reverse" /\ ~ Raised(out.res)) => SameContents(out.res, fsa)

\* an automaton with two arcs, one of them between two states on an
\* accepting path, reversed twice
C15_Witness ==
    /\ out.op = "reverse.reverse"
    /\ ~ Raised(out.res)
    /\ Closed(fsa)
    /\ Cardinality(DOMAIN fsa.delta) = 2
    /\ \E k \in DOMAIN fsa.delta : k[1] # k[3] /\ k[1] \in I(fsa) /\ k[3] \in Fin(fsa)
    /\ lehmann_pathsum(out.res, FilterSeq(order, out.res.Q)).val # Zero(fsa.R)

\* the states on a path of non-zero arcs from an initial to a final state
Useful(F) ==
    {q \in F.Q : /\ \E i \in I(F) : Reaches(F, i, q)
                 /\ \E f \in Fin(F) : Reaches(F, q, f)}

\* the statement of C16 for the automaton G returned by trim(F)
Trims(G, F) ==
    /\ G.Q \subseteq Useful(F)
    /\ \A k \in DOMAIN F.delta :
           (F.delta[k] # Zero(F.R) /\ k[1] \in Useful(F) /\ k[3] \in Useful(F))
               => Delta(G, k[1], k[2], k[3]) = F.delta[k]
    /\ Closed(F) =>
           lehmann_pathsum(G, FilterSeq(Ord(F), G.Q)) = lehmann_pathsum(thawed(F), Ord(F))

\* C16: trim(F) has only states that an initial state of F reaches and that
\* reach a final state of F, keeps every non-zero arc of F between two such
\* states with its weight and, where the semiring is closed on F, has the
\* pathsum of F.
C16_Trim ==
    out.op = "trim" => (~ Raised(out.res) /\ Trims(out.res, fsa))

\* the same statement for the calls that return: trim raises KeyError on a
\* frozen automaton with a state that has no row in delta
C16_TrimWhereReturned ==
    (out.op = "trim" /\ ~ Raised(out.res)) => Trims(out.res, fsa)

\* an automaton with an accepting path over an arc and with an accessible
\* state that reaches no final state, trimmed
C16_Witness ==
    /\ out.op = "trim"
    /\ ~ Raised(out.res)
    /\ Closed(fsa)
    /\ \E k \in DOMAIN out.res.delta : k[1] # k[3]
    /\ \E q \in accessible(thawed(fsa), order) : q \notin out.res.Q
    /\ NonZeroArcs(out.res) # NonZeroArcs(fsa)
    /\ lehmann_pathsum(out.res, FilterSeq(order, out.res.Q)).val # Zero(fsa.R)

(***************************************************************************)
(* concatenate (fsa.py:374-395).  The states of the operands are tagged    *)
(* PairState(1, idx) and PairState(2, idx); the mid-state State('*') is    *)
(* the pair of tag 0.                                                      *)
(***************************************************************************)
mid_state == <<0, 0>>

RECURSIVE tag_arcs(_, _, _, _)
tag_arcs(G, tag, A, n) ==
    IF n > Len(A) THEN G
    ELSE tag_arcs(add_arc(G, PairState(tag, A[n][1]), A[n][2], PairState(tag, A[n][3]),
                          A[n][4]), tag, A, n + 1)

RECURSIVE tag_I(_, _, _, _, _)
tag_I(G, tag, chart, qs, n) ==
    IF n > Len(qs) THEN G
    ELSE tag_I(set_I(G, PairState(tag, qs[n]), chart[qs[n]]), tag, chart, qs, n + 1)

RECURSIVE tag_F(_, _, _, _, _)
tag_F(G, tag, chart, qs, n) ==
    IF n > Len(qs) THEN G
    ELSE tag_F(set_F(G, PairState(tag, qs[n]), chart[qs[n]]), tag, chart, qs, n + 1)

\* "for q, w in self.F: ret.add_arc(PairState(1, q.idx), eps, mid_state, w)"
RECURSIVE arcs_to_mid(_, _, _, _)
arcs_to_mid(G, chart, qs, n) ==
    IF n > Len(qs) THEN G
    ELSE arcs_to_mid(add_arc(G, PairState(1, qs[n]), Eps, mid_state, chart[qs[n]]),
                     chart, qs, n + 1)

\* "for q, w in fsa.I: ret.add_arc(mid_state, eps, PairState(2, q.idx), w)"
RECURSIVE arcs_from_mid(_, _, _, _)
arcs_from_mid(G, chart, qs, n) ==
    IF n > Len(qs) THEN G
    ELSE arcs_from_mid(add_arc(G, mid_state, Eps, PairState(2, qs[n]), chart[qs[n]]),
                       chart, qs, n + 1)

\* the arcs of both operands, tagged, and the mid-state
tagged_operands(F1, F2, ord1, ord2) ==
    add_state(tag_arcs(tag_arcs(FSA(F1.R), 1, all_arcs(F1, ord1), 1),
                       2, all_arcs(F2, ord2), 1),
              mid_state)

\* the two loops over self.Q and fsa.Q read the row of every state of both
\* operands
concatenate(F1, F2, ord1, ord2) ==
    IF F1.R # F2.R THEN Raise("AssertionError")
    ELSE IF ~ (has_rows(F1, F1.Q) /\ has_rows(F2, F2.Q)) THEN Raise("KeyError")
    ELSE LET G1 == tag_I(tagged_operands(F1, F2, ord1, ord2), 1, F1.lam,
                         I_items(F1), 1)
             G2 == arcs_to_mid(G1, F1.rho, F_items(F1), 1)
             G3 == arcs_from_mid(G2, F2.lam, I_items(F2), 1)
         IN Ok(tag_F(G3, 2, F2.rho, F_items(F2), 1))

\* union (fsa.py:353-372): the arcs and the initial and final weights of
\* both operands, tagged
union(F1, F2, ord1, ord2) ==
    IF F1.R # F2.R THEN Raise("AssertionError")
    ELSE IF ~ (has_rows(F1, F1.Q) /\ has_rows(F2, F2.Q)) THEN Raise("KeyError")
    ELSE LET G0 == tag_arcs(tag_arcs(FSA(F1.R), 1, all_arcs(F1, ord1), 1),
                            2, all_arcs(F2, ord2), 1)
             G1 == tag_I(G0, 1, F1.lam, I_items(F1), 1)
             G2 == tag_F(G1, 1, F1.rho, F_items(F1), 1)
             G3 == tag_I(G2, 2, F2.lam, I_items(F2), 1)
         IN Ok(tag_F(G3, 2, F2.rho, F_items(F2), 1))

\* kleene_closure (fsa.py:397-417): State('*I') and State('*F') are the
\* states -1 and -2; the other states of the result are those of self
initial_state == -1
final_state == -2

\* "for i in self.Q: for a, j, w in self.arcs(i): ret.add_arc(i, a, j, w)"
RECURSIVE kleene_arcs(_, _, _)
kleene_arcs(G, A, n) ==
    IF n > Len(A) THEN G
    ELSE kleene_arcs(add_arc(G, A[n][1], A[n][2], A[n][3], A[n][4]), A, n + 1)

\* "for q, w in self.I: ret.add_arc(initial_state, eps, q, w)"
RECURSIVE kleene_initials(_, _, _, _)
kleene_initials(G, chart, qs, n) ==
    IF n > Len(qs) THEN G
    ELSE kleene_initials(add_arc(G, initial_state, Eps, qs[n], chart[qs[n]]),
                         chart, qs, n + 1)

\* "for p, wi in self.I: ret.add_arc(q, eps, p, wf * wi)"
RECURSIVE kleene_back(_, _, _, _, _, _)
kleene_back(G, q, wf, chart, ps, n) ==
    IF n > Len(ps) THEN G
    ELSE kleene_back(add_arc(G, q, Eps, ps[n], Times(G.R, wf, chart[ps[n]])),
                     q, wf, chart, ps, n + 1)

\* "for q, wf in self.F: ret.add_arc(q, eps, final_state, wf)" and the arcs
\* back to the initial states
RECURSIVE kleene_finals(_, _, _, _)
kleene_finals(G, F, qs, n) ==
    IF n > Len(qs) THEN G
    ELSE kleene_finals(
             kleene_back(add_arc(G, qs[n], Eps, final_state, F.rho[qs[n]]),
                         qs[n], F.rho[qs[n]], F.lam, I_items(F), 1),
             F, qs, n + 1)

kleene_closure(F, ord) ==
    IF ~ has_rows(F, F.Q) THEN Raise("KeyError")
    ELSE LET R == F.R
             G0 == set_F(set_I(add_state(add_state(FSA(R), initial_state), final_state),
                               initial_state, One(R)),
                         final_state, One(R))
             G1 == kleene_arcs(G0, all_arcs(F, ord), 1)
             G2 == kleene_initials(G1, F.lam, I_items(F), 1)
             G3 == kleene_finals(G2, F, F_items(F), 1)
         IN Ok(add_arc(G3, initial_state, Eps, final_state, One(R)))

(***************************************************************************)
(* SpecConcat: concatenate called on two drawn automata over one semiring, *)
(* on two states each, the left one with at most MaxArcs arcs and the      *)
(* right one with one arc less; the final weights of the left and the      *)
(* initial weights of the right operand are all one or all the arc weight. *)
(***************************************************************************)
CallConcatenate ==
    /\ out = NoCall
    /\ out' = Call("concatenate", concatenate(fsa, fsa2, order, Ord(fsa2)))
    /\ fsa' = read(fsa, fsa.Q, <<>>, <<>>)
    /\ fsa2' = read(fsa2, IF has_rows(fsa, fsa.Q) THEN fsa2.Q ELSE {}, <<>>, <<>>)
    /\ UNCHANGED <<order, cfg, counter>>

CallConcatenateSwapped ==
    /\ out = NoCall
    /\ out' = Call("concatenate swapped", concatenate(fsa2, fsa, Ord(fsa2), order))
    /\ fsa2' = read(fsa2, fsa2.Q, <<>>, <<>>)
    /\ fsa' = read(fsa, IF has_rows(fsa2, fsa2.Q) THEN fsa.Q ELSE {}, <<>>, <<>>)
    /\ UNCHANGED <<order, cfg, counter>>

InitConcat ==
    /\ \E R \in {"Real", "Boolean"} :
           \E W1 \in ArcMapsOn(R, PairStates, {"a"}, MaxArcs) :
           \E W2 \in ArcMapsOn(R, PairStates, {"a"}, MaxArcs - 1) :
           \E Is1 \in SUBSET PairStates, Fs1 \in SUBSET PairStates,
              Is2 \in SUBSET PairStates, Fs2 \in SUBSET PairStates :
           \E wI \in {One(R)} \cup ArcWeights(R) :
               /\ fsa = set_F_from(MakeFSA(R, W1, Is1, {}), [q \in Fs1 |-> wI],
                                   SeqOfSet(Fs1), 1)
               /\ fsa2 = set_I_from(MakeFSA(R, W2, {}, Fs2), [q \in Is2 |-> wI],
                                    SeqOfSet(Is2), 1)
    /\ order = Ord(fsa)
    /\ cfg = CFG("Boolean")
    /\ counter = 0
    /\ out = NoCall

NextConcat == CallFreeze \/ CallFreezeOther \/ CallConcatenate \/ CallConcatenateSwapped

SpecConcat == InitConcat /\ [][NextConcat]_vars

\* the statement of C17 for the concatenation P of the operands F and G
Concatenates(P, F, G) ==
    /\ lehmann_pathsum(P, SeqOfKeys(P.Q)).val
           = Times(F.R, lehmann_pathsum(thawed(F), Ord(F)).val,
                   lehmann_pathsum(thawed(G), Ord(G)).val)
    /\ \A q \in Fin(F) : Delta(P, PairState(1, q), Eps, mid_state) = F.rho[q]
    /\ \A q \in I(G) : Delta(P, mid_state, Eps, PairState(2, q)) = G.lam[q]
    /\ \A k \in DOMAIN P.delta :
           /\ k[3] = mid_state => (k[1][1] = 1 /\ k[1][2] \in Fin(F) /\ k[2] = Eps)
           /\ k[1] = mid_state => (k[3][1] = 2 /\ k[3][2] \in I(G) /\ k[2] = Eps)
    /\ I(P) = {PairState(1, q) : q \in I(F)}
    /\ Fin(P) = {PairState(2, q) : q \in Fin(G)}

\* C17: where the semiring is closed on both operands, the pathsum of
\* F.concatenate(G) is pathsum(F) * pathsum(G); the mid-state has an
\* eps-arc from every final state of F with its final weight and to every
\* initial state of G with its initial weight and no other arc; the initial
\* states are those of F and the final states those of G.
C17_Concatenate ==
    /\ (out.op = "concatenate" /\ Closed(fsa) /\ Closed(fsa2)) =>
           (out.res.err = "" /\ Concatenates(out.res.val, fsa, fsa2))
    /\ (out.op = "concatenate swapped" /\ Closed(fsa) /\ Closed(fsa2)) =>
           (out.res.err = "" /\ Concatenates(out.res.val, fsa2, fsa))

\* the same statement for the calls that return: concatenate raises KeyError
\* on a frozen operand with a state that has no row in delta
C17_ConcatenateWhereReturned ==
    /\ (out.op = "concatenate" /\ out.res.err = "" /\ Closed(fsa) /\ Closed(fsa2)) =>
           Concatenates(out.res.val, fsa, fsa2)
    /\ (out.op = "concatenate swapped" /\ out.res.err = "" /\ Closed(fsa) /\ Closed(fsa2)) =>
           Concatenates(out.res.val, fsa2, fsa)

\* two Real automata with an accepting path over an arc each, the left with
\* final weight 2 and the right with initial weight 2, concatenated
C17_Witness ==
    /\ out.op = "concatenate"
    /\ out.res.err = ""
    /\ fsa.R = "Real"
    /\ Closed(fsa) /\ Closed(fsa2)
    /\ \E k \in DOMAIN fsa.delta : k[1] \in I(fsa) /\ k[3] \in Fin(fsa) /\ fsa.rho[k[3]] = 2
    /\ \E k \in DOMAIN fsa2.delta : k[1] \in I(fsa2) /\ k[3] \in Fin(fsa2) /\ fsa2.lam[k[1]] = 2
    /\ lehmann_pathsum(out.res.val, SeqOfKeys(out.res.val.Q)).val >= 16

\* the sum of the edge marginals mu over all arcs
MarginalSum(R, mu) == SumSet(R, DOMAIN mu, mu)

\* the weight of the accepting paths without an arc: sum of lam[q] * rho[q]
EmptyPaths(F) ==
    SumSet(F.R, F.Q, [q \in F.Q |-> Times(F.R, Lam(F, q), Rho(F, q))])

\* C18 as stated: on an acyclic automaton the sum of the edge marginals
\* over all arcs is the pathsum.
C18_MarginalsSumToPathsum ==
    (out.op = "edge_marginals" /\ holds_acyclic(fsa)) =>
        /\ out.res.err = ""
        /\ MarginalSum(fsa.R, out.res.val)
               = FSA_pathsum(thawed(fsa), order, order, LEHMANN).val

\* the same statement with the weight lam(q) * rho(q) of the accepting paths
\* without an arc added to the sum, for the automata over an idempotent
\* semiring with at most one initial state that, if frozen, have a row in
\* delta for every state
C18_MarginalsFromOneSource ==
    (out.op = "edge_marginals" /\ holds_acyclic(fsa) /\ idempotent(fsa.R)
        /\ Cardinality(I(fsa)) <= 1 /\ has_rows(fsa, fsa.Q)) =>
        /\ out.res.err = ""
        /\ Plus(fsa.R, MarginalSum(fsa.R, out.res.val), EmptyPaths(fsa))
               = FSA_pathsum(thawed(fsa), order, order, LEHMANN).val

(***************************************************************************)
(* Preconditions of the strategies (pathsum.py:64-140).  The dispatch      *)
(* asserts superior, acyclic and idempotent before it calls the strategy;  *)
(* LEHMANN and DECOMPOSED_LEHMANN are called without a check, and the      *)
(* closure takes the star of whatever weight it meets.                     *)
(***************************************************************************)
\* a call that failed: it raised and returned no value
Failed(r) == r.err # ""

\* C19: a strategy called on an input that violates its precondition fails
\* at entry and returns no value: VITERBI on a cyclic automaton, BELLMANFORD
\* and JOHNSON over a non-idempotent semiring, DIJKSTRA over a non-superior
\* semiring, LEHMANN and DECOMPOSED_LEHMANN where the semiring is not closed.
C19_EagerPreconditions ==
    out.op = "Pathsum.pathsum" =>
        /\ ~ no_cycle(fsa) => out.res[VITERBI].err = "AssertionError"
        /\ ~ idempotent(fsa.R) =>
               /\ out.res[BELLMANFORD].err = "AssertionError"
               /\ out.res[JOHNSON].err = "AssertionError"
        /\ ~ superior(fsa.R) => out.res[DIJKSTRA].err = "AssertionError"
        /\ ~ Closed(fsa) =>
               /\ Failed(out.res[LEHMANN])
               /\ Failed(out.res[DECOMPOSED_LEHMANN])

\* the preconditions the dispatch asserts are reported at entry
C19_AssertedPreconditions ==
    out.op = "Pathsum.pathsum" =>
        /\ ~ no_cycle(fsa) => out.res[VITERBI].err = "AssertionError"
        /\ ~ idempotent(fsa.R) =>
               /\ out.res[BELLMANFORD].err = "AssertionError"
               /\ out.res[JOHNSON].err = "AssertionError"
        /\ ~ superior(fsa.R) => out.res[DIJKSTRA].err = "AssertionError"

(***************************************************************************)
(* State objects.  A state of an automaton is a State object (state.py:    *)
(* 5-39) with a label that set_label changes; two objects with the same    *)
(* idx are equal, and a set keeps the object it holds when an equal one is *)
(* added.  An object is either one of the argument's objects or one that   *)
(* the call constructs.  The objects of a result are followed through the  *)
(* calls of add_arc, set_I, set_F, add_I and add_F that put them there.    *)
(***************************************************************************)
objects_of(F) == [q \in F.Q |-> "argument"]

add_object(objs, q, o) == IF q \in DOMAIN objs THEN objs ELSE (q :> o) @@ objs

RECURSIVE add_objects(_, _, _, _)
add_objects(objs, O, qs, n) ==
    IF n > Len(qs) THEN objs
    ELSE add_objects(add_object(objs, qs[n], O[qs[n]]), O, qs, n + 1)

\* the states add_arc(j, a, i, w) adds for the arcs A, in the order of the calls
RECURSIVE rev_endpoints(_, _)
rev_endpoints(A, n) ==
    IF n > Len(A) THEN <<>> ELSE <<A[n][3], A[n][1]>> \o rev_endpoints(A, n + 1)

\* the states add_arc(i, a, j, w) adds for the arcs A into remaining_states
RECURSIVE kept_endpoints(_, _, _)
kept_endpoints(A, remaining_states, n) ==
    IF n > Len(A) THEN <<>>
    ELSE (IF A[n][3] \in remaining_states THEN <<A[n][1], A[n][3]>> ELSE <<>>)
             \o kept_endpoints(A, remaining_states, n + 1)

reverse_objects(F, ord) ==
    add_objects(<<>>, objects_of(F),
                rev_endpoints(all_arcs(F, ord), 1) \o I_items(F)
                    \o F_items(F), 1)

trim_objects(F, ord) ==
    LET remaining_states == accessible(F, ord) \cap coaccessible(F, ord)
    IN add_objects(<<>>, objects_of(F),
           kept_endpoints(arcs_from(F, FilterSeq(ord, remaining_states), FALSE),
                          remaining_states, 1)
               \o FilterSeq(I_items(F), remaining_states)
               \o FilterSeq(F_items(F), remaining_states), 1)

\* every state of the concatenation is a PairState or the State('*') that
\* the call constructs
concatenate_objects(F1, F2, ord1, ord2) ==
    [q \in concatenate(F1, F2, ord1, ord2).val.Q |-> "constructed"]

\* every state of the union is a PairState that the call constructs
union_objects(F1, F2, ord1, ord2) ==
    [q \in union(F1, F2, ord1, ord2).val.Q |-> "constructed"]

\* the Kleene closure holds the two states the call constructs and, handed
\* to add_arc as they are, the states of the argument
kleene_closure_objects(F, ord) ==
    [q \in kleene_closure(F, ord).val.Q |->
        IF q \in {initial_state, final_state} THEN "constructed" ELSE "argument"]

(***************************************************************************)
(* SpecFrame: reverse, trim, union, concatenate and kleene_closure called  *)
(* on a drawn automaton with the objects of the result, and the            *)
(* transformations of the Transformer called on a drawn grammar.           *)
(***************************************************************************)
CallWithObjects(op, res, objs) == [op |-> op, res |-> res, objects |-> objs]

\* a call that raises returns no object
CallReverse ==
    /\ out = NoCall
    /\ out' = CallWithObjects("reverse", Returned(reverse(fsa, order)),
                              IF Raised(reverse(fsa, order)) THEN <<>>
                              ELSE reverse_objects(fsa, order))
    /\ fsa' = read(fsa, fsa.Q, <<>>, <<>>)
    /\ UNCHANGED <<fsa2, order, cfg, counter>>

CallTrimmed ==
    /\ out = NoCall
    /\ out' = CallWithObjects("trim", Returned(trim(fsa, order)),
                              IF Raised(trim(fsa, order)) THEN <<>>
                              ELSE trim_objects(fsa, order))
    /\ fsa' = read(fsa, fsa.Q, <<>>, <<>>)
    /\ UNCHANGED <<fsa2, order, cfg, counter>>

CallSelfConcatenate ==
    /\ out = NoCall
    /\ out' = CallWithObjects("concatenate", concatenate(fsa, fsa, order, order),
                              IF concatenate(fsa, fsa, order, order).err # "" THEN <<>>
                              ELSE concatenate_objects(fsa, fsa, order, order))
    /\ fsa' = read(fsa, fsa.Q, <<>>, <<>>)
    /\ UNCHANGED <<fsa2, order, cfg, counter>>

CallSelfUnion ==
    /\ out = NoCall
    /\ out' = CallWithObjects("union", union(fsa, fsa, order, order),
                              IF union(fsa, fsa, order, order).err # "" THEN <<>>
                              ELSE union_objects(fsa, fsa, order, order))
    /\ fsa' = read(fsa, fsa.Q, <<>>, <<>>)
    /\ UNCHANGED <<fsa2, order, cfg, counter>>

CallKleeneClosure ==
    /\ out = NoCall
    /\ out' = CallWithObjects("kleene_closure", kleene_closure(fsa, order),
                              IF kleene_closure(fsa, order).err # "" THEN <<>>
                              ELSE kleene_closure_objects(fsa, order))
    /\ fsa' = read(fsa, fsa.Q, <<>>, <<>>)
    /\ UNCHANGED <<fsa2, order, cfg, counter>>

InitFrame ==
    /\ \/ Drawn({"Boolean"}, {"a"}) /\ cfg = CFG("Boolean")
       \/ fsa = FSA("Boolean") /\ cfg \in DrawnGrammars("Boolean")
    /\ fsa2 = FSA("Boolean")
    /\ order = Ord(fsa)
    /\ counter = 0
    /\ out = NoCall

NextFrame ==
    \/ CallFreeze \/ CallFreezeAfter \/ CallReverse \/ CallTrimmed \/ CallSelfConcatenate
    \/ CallSelfUnion \/ CallKleeneClosure
    \/ CallUnaryRemove \/ CallNullaryRemove \/ CallFold

SpecFrame == InitFrame /\ [][NextFrame]_vars

\* the states, the alphabet, the non-zero arcs and the non-zero initial and
\* final weights of an automaton
Contents(F) ==
    [Q |-> F.Q, Sigma |-> F.Sigma, arcs |-> NonZeroArcs(F),
     lam |-> NonZero(F.R, F.lam), rho |-> NonZero(F.R, F.rho)]

\* the contents of the arguments that a step leaves as they were
InputKept ==
    /\ Contents(fsa') = Contents(fsa)
    /\ Contents(fsa2') = Contents(fsa2)
    /\ cfg'.P = cfg.P
    /\ cfg'.S = cfg.S

\* the states of a result whose object is an object of the argument
Shared(objs) == {q \in DOMAIN objs : objs[q] = "argument"}

\* C20: no call changes its argument (states, alphabet, arcs and weights of
\* an automaton; productions, weights and start symbol of a grammar), and
\* the result shares no mutable part with the argument: none of its State
\* objects is an object of the argument.
C20_InputKeptNothingShared ==
    /\ [][InputKept]_vars
    /\ [](out.op \in FrameOps => Shared(out.objects) = {})

\* no call changes the listed contents of its argument
C20_InputKept == [][InputKept]_vars

\* where the call returns, the objects followed through it are the states of
\* the result; a union and a concatenation hold constructed objects only, a
\* Kleene closure the states of the argument and the two it constructs
C20_ObjectsOfResult ==
    (out.op \in FrameOps /\ out.res.err = "") =>
        /\ DOMAIN out.objects = out.res.val.Q
        /\ out.op \in {"union", "concatenate"} => Shared(out.objects) = {}
        /\ out.op \in {"reverse", "trim"} => Shared(out.objects) = out.res.val.Q
        /\ out.op = "kleene_closure" =>
               Shared(out.objects) = out.res.val.Q \ {initial_state, final_state}

\* the final weight of the power state Q: the sum of Q(q) * rho(q) over the
\* residuals Q(q) of Q
residual_final(F, Q) ==
    SumSet(F.R, DOMAIN Q, [q \in DOMAIN Q |-> Times(F.R, Q[q], Rho(F, q))])

\* C21: in the automaton returned by determinize every state Q, the start
\* state built from the initial weights included, has the final weight
\* sum of Q(q) * rho(q); the start state is final whenever an initial state
\* of the input is final.
C21_DeterminizeFinalWeights ==
    out.op = "determinize" =>
        /\ out.res.err = ""
        /\ \A Q \in out.res.val.Q : Rho(out.res.val, Q) = residual_final(fsa, Q)
        /\ (I(fsa) \cap Fin(fsa) # {}) =>
               \E Q \in I(out.res.val) : Q \in Fin(out.res.val)

(***************************************************************************)
(* Epsilon removal (transformer.py:40-77).  _eps_partition splits the      *)
(* automaton into E, the eps-arcs on all states, and N, the other arcs     *)
(* with the initial and final weights; epsremoval extends every arc of N   *)
(* and every initial weight by the closure of E without the empty paths.   *)
(***************************************************************************)
spawn_keep(F, ord, keep_init, keep_final) ==
    LET G1 == IF keep_init THEN set_I_from(FSA(F.R), F.lam, I_items(F), 1)
              ELSE FSA(F.R)
    IN IF keep_final THEN set_F_from(G1, F.rho, F_items(F), 1) ELSE G1

RECURSIVE add_states(_, _, _)
add_states(G, qs, n) ==
    IF n > Len(qs) THEN G ELSE add_states(add_state(G, qs[n]), qs, n + 1)

\* the arcs A = <<i, a, j, w>> with a = eps (eps = TRUE) or a # eps added to G
RECURSIVE partition_arcs(_, _, _, _)
partition_arcs(G, A, eps, n) ==
    IF n > Len(A) THEN G
    ELSE partition_arcs(IF (A[n][2] = Eps) = eps
                        THEN add_arc(G, A[n][1], A[n][2], A[n][3], A[n][4]) ELSE G,
                        A, eps, n + 1)

eps_partition_E(F, ord) ==
    partition_arcs(add_states(spawn_keep(F, ord, FALSE, FALSE), ord, 1),
                   all_arcs(F, ord), TRUE, 1)

eps_partition_N(F, ord) ==
    partition_arcs(add_states(spawn_keep(F, ord, TRUE, TRUE), ord, 1),
                   all_arcs(F, ord), FALSE, 1)

\* "for k in fsa.Q: N.add_arc(i, a, k, w * W[j, k])" for the arc <<i, a, j, w>>
RECURSIVE extend_arc(_, _, _, _, _)
extend_arc(G, W, arc, ks, n) ==
    IF n > Len(ks) THEN G
    ELSE extend_arc(add_arc(G, arc[1], arc[2], ks[n],
                            Times(G.R, arc[4], W[<<arc[3], ks[n]>>])),
                    W, arc, ks, n + 1)

\* the loop over the arcs A that fsa.arcs(i, no_eps=True) yields
RECURSIVE extend_arcs(_, _, _, _, _)
extend_arcs(G, W, A, ks, n) ==
    IF n > Len(A) THEN G
    ELSE extend_arcs(extend_arc(G, W, A[n], ks, 1), W, A, ks, n + 1)

\* "for i, j in product(fsa.Q, repeat=2): N.add_I(j, lam[i] * W[i, j])"
RECURSIVE extend_initials(_, _, _, _, _)
extend_initials(G, F, W, ij, n) ==
    IF n > Len(ij) THEN G
    ELSE extend_initials(add_I(G, ij[n][2],
                               Times(F.R, Lam(F, ij[n][1]), W[<<ij[n][1], ij[n][2]>>])),
                         F, W, ij, n + 1)

\* product(Q, repeat=2) in the iteration order of Q
pairs_of(ord) ==
    Flatten([n \in 1..Len(ord) |-> [m \in 1..Len(ord) |-> <<ord[n], ord[m]>>]])

\* _eps_partition reads the row of every state and the last loop lam at
\* every state: a frozen automaton that lacks one of them is a missing key
epsremoval(F, ord) ==
    IF ~ (has_rows(F, F.Q) /\ has_lam(F, F.Q)) THEN Raise("KeyError")
    ELSE
    LET W == lehmann(eps_partition_E(F, ord), ord, FALSE)
        N1 == extend_arcs(eps_partition_N(F, ord), W, arcs_from(F, ord, TRUE), ord, 1)
    IN Ok(extend_initials(N1, F, W, pairs_of(ord), 1))

(***************************************************************************)
(* SpecEps: epsremoval called on an automaton over the letters a and eps   *)
(* on three states, over a non-idempotent semiring (Real) and one that is  *)
(* closed on cycles (Boolean), the initial states among 0 and 1 and the    *)
(* final states among 1 and 2.                                             *)
(***************************************************************************)
CallEpsRemoval ==
    /\ out = NoCall
    /\ out' = Call("epsremoval", epsremoval(fsa, order))
    /\ fsa' = read(fsa, fsa.Q, order, <<>>)
    /\ UNCHANGED <<fsa2, order, cfg, counter>>

\* the strings accept is called with
AcceptStrings == {<<>>, <<"a">>, <<"a", "a">>}

\* accept reads of self the rows its intersect reads; the automaton of the
\* string and the product are its own
CallAccept ==
    /\ out = NoCall
    /\ \E s \in AcceptStrings :
       \E run \in {accept_run(fsa, order, s)} :
           /\ out' = Call("accept", [string |-> s, res |-> product_pathsum(run)])
           /\ fsa' = read(fsa, run.rows1, <<>>, <<>>)
    /\ UNCHANGED <<fsa2, order, cfg, counter>>

InitEps ==
    /\ \E R \in {"Real", "Boolean"} : \E W \in ArcMaps(R, {"a", Eps}) :
           \E Is \in SUBSET {0, 1} : \E Fs \in SUBSET {1, 2} :
               fsa = MakeFSA(R, W, Is, Fs)
    /\ fsa2 = FSA("Boolean")
    /\ order = Ord(fsa)
    /\ out = NoCall
    /\ cfg = CFG("Boolean")
    /\ counter = 0

NextEps == CallFreeze \/ CallEpsRemoval \/ CallAccept

SpecEps == InitEps /\ [][NextEps]_vars

\* the statement of C22 for the automaton N returned by epsremoval(F)
EpsRemoved(N, F) ==
    /\ \A k \in DOMAIN N.delta : k[2] = Eps => N.delta[k] = Zero(F.R)
    /\ \A s \in Strings :
           StringWeight(N, SeqOfKeys(N.Q), s) = StringWeight(thawed(F), Ord(F), s)
    /\ lehmann_pathsum(N, SeqOfKeys(N.Q)) = lehmann_pathsum(thawed(F), Ord(F))

\* C22: where the semiring is closed on F, epsremoval(F) has no non-zero
\* eps-arc and gives every string, the empty one included, the weight F
\* gives it, so that its pathsum is the pathsum of F.
C22_EpsRemoval ==
    (out.op = "epsremoval" /\ Closed(fsa)) =>
        (out.res.err = "" /\ EpsRemoved(out.res.val, fsa))

\* the same statement for the calls that return: epsremoval raises KeyError
\* on a frozen automaton with a state that has no row in delta or no entry
\* in lam
C22_EpsRemovalWhereReturned ==
    (out.op = "epsremoval" /\ Closed(fsa) /\ out.res.err = "") =>
        EpsRemoved(out.res.val, fsa)

\* a Real automaton with an eps-arc out of an initial state, followed by an
\* arc on a into a final state, after epsremoval
C22_Witness ==
    /\ out.op = "epsremoval"
    /\ out.res.err = ""
    /\ fsa.R = "Real"
    /\ Closed(fsa)
    /\ \E k1, k2 \in DOMAIN fsa.delta :
           /\ k1[2] = Eps /\ k2[2] = "a"
           /\ k1[1] \in I(fsa) /\ k1[3] = k2[1] /\ k2[3] \in Fin(fsa)
           /\ k1[3] \notin I(fsa)
    /\ StringWeight(out.res.val, order, <<"a">>) = 4

(***************************************************************************)
(* SpecClosure: Pathsum.lehmann called with zero=True and zero=False on an *)
(* automaton over the letters a and b, so that two arcs may join the same  *)
(* pair of states, the set of states iterated in any order.  The semirings *)
(* are Tropical, Boolean and Real, the last on exact fractions (weights    *)
(* 1/2 and 1/4), so that the star of a cycle has a value other than one.   *)
(* The initial and final weights play no part.                             *)
(***************************************************************************)
ClosureSemirings == {"Tropical", "Boolean", "Rational"}

CallLehmann ==
    /\ out = NoCall
    /\ out' = Call("lehmann", [zero \in BOOLEAN |-> lehmann(fsa, order, zero)])
    /\ UNCHANGED <<fsa, fsa2, order, cfg, counter>>

InitClosure ==
    /\ \E R \in ClosureSemirings : \E W \in ArcMaps(R, {"a", "b"}) :
           fsa = Lifted(MakeFSA(R, W, {}, {}))
    /\ fsa2 = FSA("Boolean")
    /\ order \in Orders(fsa.Q)
    /\ out = NoCall
    /\ cfg = CFG("Boolean")
    /\ counter = 0

NextClosure == CallFreeze \/ CallLehmann

SpecClosure == InitClosure /\ [][NextClosure]_vars

\* the walks from p to q over 1 to n arcs, as sequences of states
Walks(F, p, q, n) ==
    {s \in UNION {[1..k -> F.Q] : k \in 2..(n + 1)} : s[1] = p /\ s[Len(s)] = q}

\* the sum over the walks from p to q over at most |Q| arcs of the product
\* of their arc weights
WalkSum(F, p, q) ==
    LET S == Walks(F, p, q, Cardinality(F.Q))
    IN SumSet(F.R, S, [s \in S |-> WalkWeight(F, s, 1)])

\* the sequence s without its n-th element
Without(s, n) == SubSeq(s, 1, n - 1) \o SubSeq(s, n + 1, Len(s))

\* the determinant of the matrix of fractions M on the rows rs and the
\* columns cs, by expansion along the first row
RECURSIVE Det(_, _, _)
RECURSIVE DetRow(_, _, _, _)
DetRow(M, rs, cs, n) ==
    IF n > Len(cs) THEN <<0, 1>>
    ELSE LET term == FracTimes(M[<<rs[1], cs[n]>>], Det(M, Tail(rs), Without(cs, n)))
         IN FracPlus(IF n % 2 = 1 THEN term ELSE FracMinus(<<0, 1>>, term),
                     DetRow(M, rs, cs, n + 1))
Det(M, rs, cs) == IF rs = <<>> THEN <<1, 1>> ELSE DetRow(M, rs, cs, 1)

\* the matrix I - W of an automaton over the fractions
IdentityMinusW(F) ==
    [pq \in F.Q \X F.Q |->
        FracMinus(IF pq[1] = pq[2] THEN <<1, 1>> ELSE <<0, 1>>, ArcSum(F, pq[1], pq[2]))]

\* the sum over all paths between two states exists, whatever the pair: over
\* Boolean always; over Tropical where no cycle has negative weight; over
\* the fractions, the weights being non-negative, where the series of the
\* powers of W converges, which is where the leading principal minors of
\* I - W are positive
SumExists(F) ==
    CASE F.R = "Boolean" -> TRUE
      [] F.R = "Tropical" -> ~ HasNegativeCycle(F)
      [] F.R = "Rational" ->
             \A k \in 1..Cardinality(F.Q) :
                 LET qs == SubSeq(Ord(F), 1, k)
                 IN FracLess(<<0, 1>>, Det(IdentityMinusW(F), qs, qs))

\* V gives every pair (p, q) the sum over the paths from p to q over one arc
\* or more.  Over an idempotent semiring the sum is that of the walks over
\* at most |Q| arcs, a longer walk adding nothing.  Over the fractions the
\* sum of the series is the one solution of V = W + W V, and no sum over
\* finitely many walks exceeds it
IsPathSum(F, V) ==
    \A p, q \in F.Q :
        /\ V[<<p, q>>] # Undefined(F.R)
        /\ IF idempotent(F.R) THEN V[<<p, q>>] = WalkSum(F, p, q)
           ELSE /\ V[<<p, q>>] =
                       Plus(F.R, ArcSum(F, p, q),
                            SumSet(F.R, F.Q,
                                   [r \in F.Q |-> Times(F.R, ArcSum(F, p, r), V[<<r, q>>])]))
                /\ ~ FracLess(V[<<p, q>>], WalkSum(F, p, q))

\* what lehmann has returned for zero=False is the sum over the paths, and
\* for zero=True the same with one added where p = q; over Boolean these
\* are the transitive and the reflexive-transitive closure of the arcs
LehmannGivesPathSums ==
    /\ IsPathSum(fsa, out.res[FALSE])
    /\ \A p, q \in fsa.Q :
           out.res[TRUE][<<p, q>>] =
               IF p = q THEN Plus(fsa.R, out.res[FALSE][<<p, q>>], One(fsa.R))
               ELSE out.res[FALSE][<<p, q>>]
    /\ fsa.R = "Boolean" =>
           \A p, q \in fsa.Q :
               /\ (out.res[TRUE][<<p, q>>] = 1) <=> Reaches(fsa, p, q)
               /\ (out.res[FALSE][<<p, q>>] = 1) <=>
                      \E r \in fsa.Q : /\ ArcSum(fsa, p, r) # 0
                                       /\ Reaches(fsa, r, q)

\* C23: for every automaton lehmann(zero=True) gives every pair (p, q) the
\* sum over all paths from p to q of the product of their arc weights, the
\* empty path counting one when p = q, and lehmann(zero=False) the same sum
\* without the empty path; over the Boolean semiring these are the
\* reflexive-transitive and the transitive closure of the arc relation.
C23_Lehmann == out.op = "lehmann" => LehmannGivesPathSums

\* C23, for the automata on which the semiring is closed: where the sum over
\* all paths exists between every pair of states, lehmann(zero=True) and
\* lehmann(zero=False) give every pair that sum, with and without the empty
\* path, and over the Boolean semiring the two closures of the arc relation.
C23_LehmannWhereSumExists ==
    (out.op = "lehmann" /\ SumExists(fsa)) => LehmannGivesPathSums

\* an automaton over the fractions with a cycle of weight 1/4 through a
\* state: the star of the cycle is 4/3, and the paths from the state back
\* to itself sum to 1/3 without the empty path and to 4/3 with it
C23_Witness ==
    /\ out.op = "lehmann"
    /\ fsa.R = "Rational"
    /\ SumExists(fsa)
    /\ \E p, q \in fsa.Q :
           /\ p # q
           /\ ArcSum(fsa, p, q) = <<1, 2>> /\ ArcSum(fsa, q, p) = <<1, 2>>
           /\ out.res[FALSE][<<p, p>>] = <<1, 3>>
           /\ out.res[TRUE][<<p, p>>] = <<4, 3>>

(***************************************************************************)
(* SpecSCC: SCC.scc called on an automaton with at most SccArcs arcs on    *)
(* three states, isolated states included, the arcs added in ascending or  *)
(* in descending order and the state set iterated in any order.            *)
(***************************************************************************)
SccArcs == 4

\* the outcome of SCC(F).scc(): the list of components, or the KeyError of
\* the read of a missing row of a frozen automaton
SCC_scc(F, ord) == IF has_rows(F, F.Q) THEN Ok(scc(F, ord)) ELSE Raise("KeyError")

CallSCC ==
    /\ out = NoCall
    /\ out' = Call("scc", SCC_scc(fsa, order))
    /\ fsa' = read(fsa, fsa.Q, <<>>, <<>>)
    /\ UNCHANGED <<fsa2, order, cfg, counter>>

InitSCC ==
    /\ \E W \in ArcMapsOn("Boolean", States, {"a"}, SccArcs) :
           \E Is \in SUBSET States : \E up \in BOOLEAN :
               fsa = MakeFSAIn("Boolean", W, Dir(SeqOfKeys(DOMAIN W), up),
                               SeqOfSet(Is), <<>>)
    /\ order \in Orders(fsa.Q)
    /\ fsa2 = FSA("Boolean")
    /\ out = NoCall
    /\ cfg = CFG("Boolean")
    /\ counter = 0

NextSCC == CallFreeze \/ CallSCC

SpecSCC == InitSCC /\ [][NextSCC]_vars

\* the position in the list L of the set that holds u
PositionOf(L, u) == CHOOSE n \in 1..Len(L) : u \in L[n]

\* the statement of C24 for the list L returned by SCC(F).scc()
Components(L, F) ==
    /\ \A n \in 1..Len(L) : L[n] # {}
    /\ \A m, n \in 1..Len(L) : m # n => L[m] \cap L[n] = {}
    /\ UNION {L[n] : n \in 1..Len(L)} = F.Q
    /\ \A u, v \in F.Q :
           (PositionOf(L, u) = PositionOf(L, v)) <=> (Reaches(F, u, v) /\ Reaches(F, v, u))
    /\ \A u, v \in F.Q :
           (ArcSum(F, u, v) # Zero(F.R) /\ PositionOf(L, u) # PositionOf(L, v))
               => PositionOf(L, u) < PositionOf(L, v)

\* C24: scc() returns a list of non-empty, pairwise disjoint sets whose union
\* is Q; each is a maximal strongly connected set of states; for every arc
\* u -> v between two of the sets, the set of u comes before the set of v.
C24_SCC ==
    out.op = "scc" => (out.res.err = "" /\ Components(out.res.val, fsa))

\* the same statement for the calls that return: scc raises KeyError on a
\* frozen automaton with a state that has no row in delta
C24_SCCWhereReturned ==
    (out.op = "scc" /\ out.res.err = "") => Components(out.res.val, fsa)

\* a component of two states with an arc into it from another component,
\* the state of the other component last in the iteration order
C24_Witness ==
    /\ out.op = "scc"
    /\ out.res.err = ""
    /\ Len(out.res.val) = 2
    /\ Cardinality(out.res.val[2]) = 2
    /\ order[Len(order)] \in out.res.val[1]
    /\ \E u \in out.res.val[1], v \in out.res.val[2] : ArcSum(fsa, u, v) # 0

(***************************************************************************)
(* Transducers (fst.py:11-108).  An FST is an FSA with an output alphabet  *)
(* Delta whose arcs carry a pair of symbols: delta is keyed by             *)
(* <<i, a, b, j>>.  top_compose explores the pairs of states from the      *)
(* pairs of initial states, matches the output symbol of an arc of the     *)
(* first with the input symbol of an arc of the second, and then gives     *)
(* the states of the composite their initial and final weights.            *)
(***************************************************************************)
FST(R) ==
    [R |-> R, Sigma |-> {}, Delta |-> {}, Q |-> {}, delta |-> <<>>,
     lam |-> <<>>, rho |-> <<>>,
     delta_keys |-> <<>>, lam_keys |-> <<>>, rho_keys |-> <<>>,
     rows |-> {}, frozen |-> FALSE]

FST_add_arc(T, i, a, b, j, w) ==
    [T EXCEPT !.Q = @ \cup {i, j},
              !.Sigma = @ \cup {a},
              !.Delta = @ \cup {b},
              !.delta = Put(@, <<i, a, b, j>>,
                            Plus(T.R, Get(T.R, @, <<i, a, b, j>>), w)),
              !.delta_keys = Inserted(@, <<i, a, b, j>>),
              !.rows = @ \cup {i}]

\* the non-zero arcs leaving i as <<a, b, j, w>>: the pairs (a, b) in the
\* order in which delta[i] received them, the targets of a pair in the order
\* in which delta[i][(a, b)] received them
FST_arcs(T, i) ==
    IF ~ has_rows(T, {i}) THEN Raise("KeyError")
    ELSE
    LET from_i == SelectSeq(T.delta_keys, LAMBDA k : k[1] = i)
        abs == Distinct([n \in 1..Len(from_i) |-> <<from_i[n][2], from_i[n][3]>>])
        targets(ab) == SelectSeq(from_i, LAMBDA k : <<k[2], k[3]>> = ab
                                                  /\ T.delta[k] # Zero(T.R))
    IN Flatten([n \in 1..Len(abs) |->
           [m \in 1..Len(targets(abs[n])) |->
               <<abs[n][1], abs[n][2], targets(abs[n])[m][4],
                 T.delta[targets(abs[n])[m]]>>]])

\* product(xs, ys) as a sequence of pairs
product_of(xs, ys) ==
    Flatten([n \in 1..Len(xs) |-> [m \in 1..Len(ys) |-> <<xs[n], ys[m]>>]])

\* the body of the loop over the pairs of arcs of the popped (i1, i2)
RECURSIVE compose_arcs(_, _, _, _, _)
compose_arcs(st, i1, i2, ps, n) ==
    IF n > Len(ps) THEN st
    ELSE LET e1 == ps[n][1]
             e2 == ps[n][2]
             j == <<e1[3], e2[3]>>
         IN IF e1[2] # e2[1] THEN compose_arcs(st, i1, i2, ps, n + 1)
            ELSE compose_arcs(
                     [st EXCEPT !.composite = FST_add_arc(@, PairState(i1, i2), e1[1],
                                                          e2[2], PairState(j[1], j[2]),
                                                          Times(st.composite.R, e1[4], e2[4])),
                                !.stack = IF j \in st.visited THEN @ ELSE Append(@, j),
                                !.visited = @ \cup {j}],
                     i1, i2, ps, n + 1)

\* "while len(stack) > 0": product(self.arcs(i1), fst.arcs(i2)) reads the row
\* of i1 in self and then the row of i2 in fst; rows1 and rows2 are the rows
\* read so far.  On a frozen transducer a row that is not there is a missing
\* key, which ends the call where it is
RECURSIVE compose_loop(_, _, _)
compose_loop(T1, T2, st) ==
    IF st.stack = <<>> THEN st
    ELSE LET i == st.stack[Len(st.stack)]
             st1 == [st EXCEPT !.stack = SubSeq(@, 1, Len(@) - 1)]
             read1 == [st1 EXCEPT !.rows1 = @ \cup {i[1]}]
             read2 == [read1 EXCEPT !.rows2 = @ \cup {i[2]}]
         IN IF ~ has_rows(T1, {i[1]}) THEN [st1 EXCEPT !.err = "KeyError"]
            ELSE IF ~ has_rows(T2, {i[2]}) THEN [read1 EXCEPT !.err = "KeyError"]
            ELSE compose_loop(T1, T2,
                     compose_arcs(read2, i[1], i[2],
                                  product_of(FST_arcs(T1, i[1]), FST_arcs(T2, i[2])), 1))

\* "for q in composite.Q": qs is the order in which the set Q is iterated.
\* For q = (i1, i2) the loop reads self.lam[i1] and fst.lam[i2], writes
\* composite.lam[q], reads self.rho[i1] and fst.rho[i2] and writes
\* composite.rho[q]; lam1, lam2, rho1 and rho2 are the entries read so far.
\* On a frozen transducer an entry that is not there is a missing key
RECURSIVE compose_weights(_, _, _, _, _)
compose_weights(T1, T2, st, qs, n) ==
    IF n > Len(qs) THEN st
    ELSE LET q == qs[n]
             R == st.composite.R
             a1 == [st EXCEPT !.lam1 = Append(@, q[1])]
             a2 == [a1 EXCEPT !.lam2 = Append(@, q[2]),
                              !.composite.lam =
                                  Put(@, q, Times(R, Lam(T1, q[1]), Lam(T2, q[2]))),
                              !.composite.lam_keys = Inserted(@, q)]
             a3 == [a2 EXCEPT !.rho1 = Append(@, q[1])]
             a4 == [a3 EXCEPT !.rho2 = Append(@, q[2]),
                              !.composite.rho =
                                  Put(@, q, Times(R, Rho(T1, q[1]), Rho(T2, q[2]))),
                              !.composite.rho_keys = Inserted(@, q)]
         IN IF ~ has_lam(T1, {q[1]}) THEN [st EXCEPT !.err = "KeyError"]
            ELSE IF ~ has_lam(T2, {q[2]}) THEN [a1 EXCEPT !.err = "KeyError"]
            ELSE IF ~ has_rho(T1, {q[1]}) THEN [a2 EXCEPT !.err = "KeyError"]
            ELSE IF ~ has_rho(T2, {q[2]}) THEN [a3 EXCEPT !.err = "KeyError"]
            ELSE compose_weights(T1, T2, a4, qs, n + 1)

\* the search from the pairs of initial states: the composite, the rows read
\* and the exception it has ended with, if any
compose_search(T1, T2) ==
    LET stack == product_of(I_items(T1), I_items(T2))
    IN compose_loop(T1, T2,
                    [composite |-> FST(T1.R), stack |-> stack, visited |-> Range(stack),
                     rows1 |-> {}, rows2 |-> {},
                     lam1 |-> <<>>, lam2 |-> <<>>, rho1 |-> <<>>, rho2 |-> <<>>,
                     err |-> ""])

\* the states of the composite once the search is over: the set the last
\* loop iterates
composite_Q(T1, T2) == IF T1.R # T2.R THEN {} ELSE compose_search(T1, T2).composite.Q

\* the run up to the last loop: the assertion on the semirings, then the
\* search
compose_start(T1, T2) ==
    IF T1.R # T2.R
    THEN [composite |-> FST(T1.R), stack |-> <<>>, visited |-> {},
          rows1 |-> {}, rows2 |-> {},
          lam1 |-> <<>>, lam2 |-> <<>>, rho1 |-> <<>>, rho2 |-> <<>>,
          err |-> "AssertionError"]
    ELSE compose_search(T1, T2)

\* the last loop, over the set composite.Q in the order qs
compose_end(T1, T2, st, qs) ==
    IF st.err # "" THEN st ELSE compose_weights(T1, T2, st, qs, 1)

\* the run of self.top_compose(fst) with the set composite.Q iterated in the
\* order qs: the composite, what the run has read of self and of fst, and
\* the exception it has ended with, if any
top_compose_run(T1, T2, qs) == compose_end(T1, T2, compose_start(T1, T2), qs)

\* what the run returns or raises
compose_result(run) == IF run.err # "" THEN Raise(run.err) ELSE Ok(run.composite)

top_compose(T1, T2, qs) == compose_result(top_compose_run(T1, T2, qs))

(***************************************************************************)
(* SpecCompose: top_compose called on two eps-free transducers on the      *)
(* states 0 and 1: the first reads a and writes a or b, the second reads a *)
(* or b and writes a.                                                      *)
(***************************************************************************)
RECURSIVE FST_add_arcs(_, _, _, _)
FST_add_arcs(T, W, ks, n) ==
    IF n > Len(ks) THEN T
    ELSE FST_add_arcs(FST_add_arc(T, ks[n][1], ks[n][2], ks[n][3], ks[n][4], W[ks[n]]),
                      W, ks, n + 1)

MakeFST(R, W, Is, Fs) ==
    set_F_all(set_I_all(FST_add_arcs(FST(R), W, SeqOfKeys(DOMAIN W), 1),
                        SeqOfSet(Is), 1),
              SeqOfSet(Fs), 1)

FSTArcMaps(R, Ins, Outs, n) ==
    UNION {[A -> ArcWeights(R)] :
               A \in {B \in SUBSET (PairStates \X Ins \X Outs \X PairStates) :
                          Cardinality(B) <= n}}

\* composite.Q is a set of PairState objects: every order is one in which
\* the last loop may iterate it
CallTopCompose ==
    /\ out = NoCall
    /\ \E st \in {compose_start(fsa, fsa2)} :
       \E qs \in Orders(st.composite.Q) :
       \E run \in {compose_end(fsa, fsa2, st, qs)} :
           /\ out' = Call("top_compose", compose_result(run))
           /\ fsa' = read(fsa, run.rows1, run.lam1, run.rho1)
           /\ fsa2' = read(fsa2, run.rows2, run.lam2, run.rho2)
    /\ UNCHANGED <<order, cfg, counter>>

\* bottom_compose (fst.py:110-112): fst.top_compose(self)
bottom_compose(T1, T2, qs) == top_compose(T2, T1, qs)

CallBottomCompose ==
    /\ out = NoCall
    /\ \E st \in {compose_start(fsa2, fsa)} :
       \E qs \in Orders(st.composite.Q) :
       \E run \in {compose_end(fsa2, fsa, st, qs)} :
           /\ out' = Call("bottom_compose", compose_result(run))
           /\ fsa2' = read(fsa2, run.rows1, run.lam1, run.rho1)
           /\ fsa' = read(fsa, run.rows2, run.lam2, run.rho2)
    /\ UNCHANGED <<order, cfg, counter>>

InitCompose ==
    /\ \E R \in {"Real", "Boolean"} :
           \E W1 \in FSTArcMaps(R, {"a"}, {"a", "b"}, MaxArcs) :
           \E W2 \in FSTArcMaps(R, {"a", "b"}, {"a"}, MaxArcs - 1) :
           \E Is1 \in SUBSET PairStates, Fs1 \in SUBSET PairStates,
              Is2 \in {{}, {0}}, Fs2 \in SUBSET PairStates :
               /\ fsa = MakeFST(R, W1, Is1, Fs1)
               /\ fsa2 = MakeFST(R, W2, Is2, Fs2)
    /\ order = <<>>
    /\ out = NoCall
    /\ cfg = CFG("Boolean")
    /\ counter = 0

NextCompose == CallFreeze \/ CallFreezeOther \/ CallTopCompose \/ CallBottomCompose

SpecCompose == InitCompose /\ [][NextCompose]_vars

\* the product of the weights of a sequence
RECURSIVE ProdSeq(_, _)
ProdSeq(R, ws) ==
    IF ws = <<>> THEN One(R) ELSE Times(R, Head(ws), ProdSeq(R, Tail(ws)))

\* the weight the transducer T gives the pair of strings (x, y) of the same
\* length: the sum over the sequences of states of lam, the arcs and rho
RelationWeight(T, x, y) ==
    LET S == [1..(Len(x) + 1) -> T.Q]
    IN SumSet(T.R, S,
              [s \in S |->
                  Times(T.R, Lam(T, s[1]),
                        Times(T.R,
                              ProdSeq(T.R, [n \in 1..Len(x) |->
                                  Get(T.R, T.delta, <<s[n], x[n], y[n], s[n + 1]>>)]),
                              Rho(T, s[Len(x) + 1])))])

\* the strings of length n over the letters a and b
Middles(n) == [1..n -> {"a", "b"}]

\* the sum over the middle strings y of T1(x, y) * T2(y, z)
ComposedWeight(T1, T2, x, z) ==
    SumSet(T1.R, Middles(Len(x)),
           [y \in Middles(Len(x)) |->
               Times(T1.R, RelationWeight(T1, x, y), RelationWeight(T2, y, z))])

\* C25: T1.top_compose(T2) gives every pair of strings (x, z) the weight
\* sum over y of T1(x, y) * T2(y, z); every pair of an initial state of T1
\* and an initial state of T2 is a state of the result with initial weight
\* lam1 * lam2 and final weight rho1 * rho2, also without matching arcs.
C25_TopCompose ==
    out.op = "top_compose" =>
        /\ out.res.err = ""
        /\ \A x \in Strings :
               RelationWeight(out.res.val, x, x) = ComposedWeight(fsa, fsa2, x, x)
        /\ \A i1 \in I(fsa), i2 \in I(fsa2) :
               /\ <<i1, i2>> \in out.res.val.Q
               /\ Lam(out.res.val, <<i1, i2>>)
                      = Times(fsa.R, Lam(fsa, i1), Lam(fsa2, i2))
               /\ Rho(out.res.val, <<i1, i2>>)
                      = Times(fsa.R, Rho(fsa, i1), Rho(fsa2, i2))

\* the same where top_compose returns, for the pairs of strings that are not
\* empty and for the pairs of states that are states of the result
C25_TopComposeOnArcs ==
    (out.op = "top_compose" /\ out.res.err = "") =>
        /\ \A x \in Strings \ {<<>>} :
               RelationWeight(out.res.val, x, x) = ComposedWeight(fsa, fsa2, x, x)
        /\ \A q \in out.res.val.Q :
               /\ Lam(out.res.val, q) = Times(fsa.R, Lam(fsa, q[1]), Lam(fsa2, q[2]))
               /\ Rho(out.res.val, q) = Times(fsa.R, Rho(fsa, q[1]), Rho(fsa2, q[2]))

=============================================================================
